---- MODULE Spec2Model ----
(***************************************************************************)
(* Model of real_reql_cluster_interface_t                                  *)
(* (src/clustering/administration/real_reql_cluster_interface.cc): the     *)
(* cluster metadata control plane.  Every node holds a semilattice store,  *)
(* every worker thread of a node a mirror (cross-thread watchable) of the  *)
(* databases and of the namespaces sub-lattice.  Operations run as         *)
(* coroutines: an action of the model is the code between two suspension   *)
(* points of one call.                                                     *)
(***************************************************************************)
EXTENDS Integers, Sequences, FiniteSets, TLC

\* ------------------------------------------------------------- bounds
\* Number of uuids generate_uuid() can hand out for databases / tables.
MaxDbs == 2
MaxTables == 2
\* Highest version stamp a versioned_t replication_info can take.
MaxStamp == 1

DbIds == 1..MaxDbs
TableIds == 1..MaxTables
DbNames == {"a", "b"}
TableNames == {"t", "u"}
PrimaryKeys == {"id"}
Servers == {"s1"}

\* The servers of the cluster: those a configuration may name.
MoreServers == {"s1", "s2"}

\* Cluster layout: two nodes with two threads each; thread 0 is the home
\* thread of the node's semilattice view, directory and server name client.
Nodes == {"n1", "n2"}
Threads == {"home", "worker"}
Callers == {"c1", "c2", "c3"}
NodeOf(c) == IF c = "c3" THEN "n2" ELSE "n1"
ThreadOf(c) == IF c = "c2" THEN "home" ELSE "worker"
HomeThread == "home"

\* table_readiness_t, in increasing order.
Unready == 0
Writes == 1
Reads == 2
Finished == 3
Levels == {Unready, Writes, Reads, Finished}
\* boost::optional<table_readiness_t>() : the table does not exist.
NoReadiness == -1

VARIABLES
    store,      \* store[n]: the cluster_semilattice_metadata_t of node n
    nsCache,    \* nsCache[n][t]: cross_thread_namespace_watchables[t] on n
    dbCache,    \* dbCache[n][t]: cross_thread_database_watchables[t] on n
    readiness,  \* readiness[id]: what the directory says of table id
    call,       \* call[c]: the coroutine of caller c (locals and position)
    hist        \* history: what the observed caller did, what the directory showed

vars == <<store, nsCache, dbCache, readiness, call, hist>>

\* ------------------------------------------------- semilattice metadata
EmptyMap == <<>>
EmptyMetadata == [databases |-> EmptyMap, rdb_namespaces |-> EmptyMap]

\* versioned_t<T>: the later stamp wins.
versioned_join(a, b) == IF b.stamp > a.stamp THEN b ELSE a

\* deletable_t<database_semilattice_metadata_t>
db_join(a, b) ==
    [name |-> a.name, deleted |-> a.deleted \/ b.deleted]

\* deletable_t<namespace_semilattice_metadata_t>
ns_join(a, b) ==
    [name |-> a.name, database |-> a.database, primary_key |-> a.primary_key,
     replication_info |-> versioned_join(a.replication_info, b.replication_info),
     deleted |-> a.deleted \/ b.deleted]

\* semilattice_join on a std::map: keys are united, common keys joined.
map_join(a, b, J(_, _)) ==
    [k \in (DOMAIN a) \cup (DOMAIN b) |->
        IF k \in DOMAIN a
        THEN IF k \in DOMAIN b THEN J(a[k], b[k]) ELSE a[k]
        ELSE b[k]]

databases_join(a, b) == map_join(a, b, db_join)
namespaces_join(a, b) == map_join(a, b, ns_join)

semilattice_join(a, b) ==
    [databases |-> databases_join(a.databases, b.databases),
     rdb_namespaces |-> namespaces_join(a.rdb_namespaces, b.rdb_namespaces)]

\* is_joined that compares the joined copy with the divisor.
is_joined_db_divisor(multiple, divisor) == databases_join(multiple, divisor) = divisor

\* is_joined: divisor contributes nothing new to multiple.
is_joined_db(multiple, divisor) == databases_join(multiple, divisor) = multiple

is_joined_ns(multiple, divisor) == namespaces_join(multiple, divisor) = multiple

\* ------------------------------------------------------ metadata searcher
\* metadata_searcher_t / namespace_predicate_t: the predicates skip deleted
\* entries.  The result is the set of matching ids.
find_db_by_name(dbs, name) ==
    {id \in DOMAIN dbs : ~dbs[id].deleted /\ dbs[id].name = name}

find_ns_by_db(nss, db) ==
    {id \in DOMAIN nss : ~nss[id].deleted /\ nss[id].database = db}

find_ns_by_name_db(nss, name, db) ==
    {id \in DOMAIN nss :
        ~nss[id].deleted /\ nss[id].name = name /\ nss[id].database = db}

find_ns_all(nss) == {id \in DOMAIN nss : ~nss[id].deleted}

\* find_uniq's metadata_search_status_t.
search_status(found) ==
    IF found = {} THEN "NotFound"
    ELSE IF Cardinality(found) = 1 THEN "Found" ELSE "MultipleFound"

\* check_metadata_status: "ok" lets the operation go on, anything else is
\* the operation's outcome.  MultipleFound is a failed guarantee.
check_metadata_status(status, expect_present) ==
    CASE status = "MultipleFound" -> "fatal"
      [] status = "Found" -> IF expect_present THEN "ok" ELSE "already_exists"
      [] OTHER -> IF expect_present THEN "does_not_exist" ELSE "ok"

TheOne(S) == CHOOSE x \in S : TRUE

\* generate_uuid(): a uuid no store has seen; the smallest unused one stands
\* for all of them.
AllDbIds == UNION {DOMAIN store[n].databases : n \in Nodes}
AllNsIds == UNION {DOMAIN store[n].rdb_namespaces : n \in Nodes}
HasFreshDb == DbIds \ AllDbIds # {}
HasFreshNs == TableIds \ AllNsIds # {}
\* A generator that hands out the id of a deleted database again.
generate_db_uuid_reused ==
    LET free == {id \in DbIds :
                    \/ id \notin AllDbIds
                    \/ \E n \in Nodes : /\ id \in DOMAIN store[n].databases
                                        /\ store[n].databases[id].deleted}
    IN  CHOOSE id \in free : \A o \in free : id <= o

generate_db_uuid == CHOOSE id \in DbIds \ AllDbIds :
                        \A o \in DbIds \ AllDbIds : id <= o

generate_ns_uuid == CHOOSE id \in TableIds \ AllNsIds :
                        \A o \in TableIds \ AllNsIds : id <= o

\* ------------------------------------------------------------- coroutines
NoId == 0
NoUsage == [s \in MoreServers |-> 0]

NoCall ==
    [pc |-> "idle", op |-> "", name |-> "", result |-> "",
     metadata |-> EmptyMetadata,  \* cluster_semilattice_metadata_t metadata
     db |-> NoId,                 \* counted_t<const ql::db_t>: the handle held
     primary_key |-> "",
     dry_run |-> FALSE,
     namespace_id |-> NoId,       \* table_create's namespace_id
     it |-> NoId,                 \* the entry find_uniq found: it, ns_metadata_it
     tables |-> {},               \* table_wait's name set
     readiness |-> Unready,       \* table_wait's target
     ids |-> <<>>,                \* table_map, in its iteration order
     w |-> 0,                     \* the waiter suspended in wait_ready (0: none)
     immediate |-> TRUE,
     notified |-> FALSE,          \* the directory changed since the last check
     deleted |-> {},              \* the waiters whose `deleted` is set
     waited |-> "",               \* how table_create's table_wait ended
     out |-> {},                  \* names_out
     server_usage |-> NoUsage]    \* std::map<server_id_t, int> server_usage

\* The locals of a fresh call of op by a caller whose record is old: the
\* database handle the caller holds outlives its calls.
NewCall(old, op, name, pc) ==
    [NoCall EXCEPT !.pc = pc, !.op = op, !.name = name, !.db = old.db]

\* The call returns: its locals go, what it returned stays with the caller.
Finish(rec, result) ==
    [NoCall EXCEPT !.pc = "done", !.op = rec.op, !.result = result, !.db = rec.db,
                   !.waited = rec.waited, !.out = rec.out]

Idle(c) == call[c].pc \in {"idle", "done"}

\* A failed guarantee aborts the server process of the node.
Crashed(n) == \E c \in Callers : NodeOf(c) = n /\ call[c].pc = "fatal"
Running(c) == ~Crashed(NodeOf(c))

Fatal(rec) ==
    [NoCall EXCEPT !.pc = "fatal", !.op = rec.op, !.result = "fatal", !.db = rec.db]

\* The end of a step whose check_metadata_status gave `status`.
Fail(rec, status) == IF status = "fatal" THEN Fatal(rec) ELSE Finish(rec, status)

\* ------------------------------------------------------------- db_create
DbCreateCall(c, name) ==
    /\ Idle(c) /\ Running(c)
    /\ call' = [call EXCEPT ![c] = NewCall(@, "db_create", name, "dbc_home")]
    /\ UNCHANGED <<store, nsCache, dbCache, readiness, hist>>

\* Lines 66-86, on the home thread of the semilattice view: nothing between
\* get() and join() suspends.
db_create_join(metadata, name) ==
    [metadata EXCEPT !.databases =
        databases_join(@, generate_db_uuid :> [name |-> name, deleted |-> FALSE])]

\* db_create that goes to its barrier with the changed snapshot without
\* having joined it.
DbCreateHomeNoJoin(c) ==
    LET n == NodeOf(c)
        metadata == store[n]
        status == check_metadata_status(
            search_status(find_db_by_name(metadata.databases, call[c].name)), FALSE)
    IN  /\ call[c].pc = "dbc_home" /\ Running(c)
        /\ IF status # "ok"
           THEN call' = [call EXCEPT ![c] = Fail(@, status)]
           ELSE /\ HasFreshDb
                /\ call' = [call EXCEPT ![c] =
                        [@ EXCEPT !.pc = "prop_ns",
                                  !.metadata = db_create_join(metadata, call[c].name)]]
        /\ UNCHANGED <<store, nsCache, dbCache, readiness, hist>>

DbCreateHome(c) ==
    LET n == NodeOf(c)
        metadata == store[n]
        status == check_metadata_status(
            search_status(find_db_by_name(metadata.databases, call[c].name)), FALSE)
    IN  /\ call[c].pc = "dbc_home" /\ Running(c)
        /\ IF status # "ok"
           THEN /\ call' = [call EXCEPT ![c] = Fail(@, status)]
                /\ UNCHANGED store
           ELSE /\ HasFreshDb
                /\ store' = [store EXCEPT ![n] =
                        semilattice_join(@, db_create_join(metadata, call[c].name))]
                /\ call' = [call EXCEPT ![c] =
                        [@ EXCEPT !.pc = "prop_ns", !.metadata = store'[n]]]
        /\ UNCHANGED <<nsCache, dbCache, readiness, hist>>

\* --------------------------------------------------------------- db_drop
DbDropCall(c, name) ==
    /\ Idle(c) /\ Running(c)
    /\ call' = [call EXCEPT ![c] = NewCall(@, "db_drop", name, "dbd_home")]
    /\ UNCHANGED <<store, nsCache, dbCache, readiness, hist>>

\* Lines 109-125: mark the database deleted, and every table the by-database
\* predicate finds in the snapshot.
\* db_drop that marks the database and forgets its tables.
db_drop_mark_no_cascade(metadata, id) ==
    [metadata EXCEPT !.databases[id].deleted = TRUE]

db_drop_mark(metadata, id) ==
    [databases |-> [metadata.databases EXCEPT ![id].deleted = TRUE],
     rdb_namespaces |->
        [k \in DOMAIN metadata.rdb_namespaces |->
            IF k \in find_ns_by_db(metadata.rdb_namespaces, id)
            THEN [metadata.rdb_namespaces[k] EXCEPT !.deleted = TRUE]
            ELSE metadata.rdb_namespaces[k]]]

DbDropHome(c) ==
    LET n == NodeOf(c)
        metadata == store[n]
        found == find_db_by_name(metadata.databases, call[c].name)
        status == check_metadata_status(search_status(found), TRUE)
    IN  /\ call[c].pc = "dbd_home" /\ Running(c)
        /\ IF status # "ok"
           THEN /\ call' = [call EXCEPT ![c] = Fail(@, status)]
                /\ UNCHANGED store
           ELSE /\ store' = [store EXCEPT ![n] =
                        semilattice_join(@, db_drop_mark(metadata, TheOne(found)))]
                /\ call' = [call EXCEPT ![c] =
                        [@ EXCEPT !.pc = "prop_ns", !.metadata = store'[n],
                                  !.it = TheOne(found)]]
        /\ UNCHANGED <<nsCache, dbCache, readiness, hist>>

\* History: the databases and the tables (database id, name) the observed
\* caller has successfully created and not since successfully dropped.
Observed == "c1"
Returned(c) ==
    IF ~hist.calls \/ c # Observed THEN hist
    ELSE CASE call[c].op = "db_create" ->
                [hist EXCEPT !.dbs = @ \cup {call[c].name}]
           [] call[c].op = "db_drop" ->
                [hist EXCEPT !.dbs = @ \ {call[c].name}]
           [] call[c].op = "table_create" ->
                [hist EXCEPT !.tables = @ \cup {<<call[c].db, call[c].name>>},
                             !.made = @ \cup {[db |-> call[c].db, name |-> call[c].name,
                                                id |-> call[c].namespace_id,
                                                primary_key |-> call[c].primary_key]}]
           [] call[c].op = "table_drop" ->
                [hist EXCEPT !.tables = @ \ {<<call[c].db, call[c].name>>},
                             !.made = {m \in @ : ~(m.db = call[c].db /\ m.name = call[c].name)}]
           [] OTHER -> hist

\* ------------------------------------------ wait_for_metadata_to_propagate
\* Lines 681-696 on the thread the caller runs on: first the namespaces
\* mirror of that thread, then its databases mirror.
\* The barrier without its wait on the namespaces mirror.
WaitNsNoBarrier(c) ==
    /\ call[c].pc = "prop_ns" /\ Running(c)
    /\ call' = [call EXCEPT ![c].pc = "prop_db"]
    /\ UNCHANGED <<store, nsCache, dbCache, readiness, hist>>

WaitNs(c) ==
    /\ call[c].pc = "prop_ns" /\ Running(c)
    /\ is_joined_ns(nsCache[NodeOf(c)][ThreadOf(c)], call[c].metadata.rdb_namespaces)
    /\ call' = [call EXCEPT ![c].pc = "prop_db"]
    /\ UNCHANGED <<store, nsCache, dbCache, readiness, hist>>

\* The return of a mutating call without the wait on the databases mirror.
WaitDbNoBarrier(c) ==
    /\ call[c].pc = "prop_db" /\ Running(c)
    /\ call' = [call EXCEPT ![c] = Finish(@, "ok")]
    /\ hist' = Returned(c)
    /\ UNCHANGED <<store, nsCache, dbCache, readiness>>

WaitDb(c) ==
    /\ call[c].pc = "prop_db" /\ Running(c)
    /\ is_joined_db(dbCache[NodeOf(c)][ThreadOf(c)], call[c].metadata.databases)
    /\ call' = [call EXCEPT ![c] = Finish(@, "ok")]
    /\ hist' = Returned(c)
    /\ UNCHANGED <<store, nsCache, dbCache, readiness>>

\* --------------------------------------------------- cross-thread mirrors
\* cross_thread_watchable_variable_t delivers the latest value of the
\* store's field to its thread, some time after the store changed.
PropagateNs(n, t) ==
    /\ ~Crashed(n)
    /\ nsCache[n][t] # store[n].rdb_namespaces
    /\ nsCache' = [nsCache EXCEPT ![n][t] = store[n].rdb_namespaces]
    /\ UNCHANGED <<store, dbCache, readiness, call, hist>>

PropagateDb(n, t) ==
    /\ ~Crashed(n)
    /\ dbCache[n][t] # store[n].databases
    /\ dbCache' = [dbCache EXCEPT ![n][t] = store[n].databases]
    /\ UNCHANGED <<store, nsCache, readiness, call, hist>>

\* The semilattice manager sends a node's metadata to its peers, which join it.
Gossip(from, to) ==
    /\ from # to /\ ~Crashed(to)
    /\ ~(semilattice_join(store[to], store[from]) = store[to])
    /\ store' = [store EXCEPT ![to] = semilattice_join(@, store[from])]
    /\ UNCHANGED <<nsCache, dbCache, readiness, call, hist>>

\* semilattice_root_view->join(metadata) of a caller on its node, as lines
\* 84, 127, 258, 302 and 663 call it: the caller keeps the snapshot.
JoinSnapshot(c, snapshot) ==
    /\ call[c].pc = "idle" /\ Running(c)
    /\ store' = [store EXCEPT ![NodeOf(c)] = semilattice_join(@, snapshot)]
    /\ call' = [call EXCEPT ![c] =
            [NewCall(@, "join", "", "joined") EXCEPT !.metadata = snapshot]]
    /\ UNCHANGED <<nsCache, dbCache, readiness, hist>>

\* The caller joins the snapshot it keeps a second time.
JoinAgain(c) ==
    /\ call[c].pc = "joined" /\ Running(c)
    /\ store' = [store EXCEPT ![NodeOf(c)] = semilattice_join(@, call[c].metadata)]
    /\ call' = [call EXCEPT ![c].pc = "joined_twice"]
    /\ UNCHANGED <<nsCache, dbCache, readiness, hist>>

\* ------------------------------------------------- reads of the mirrors
\* get_namespaces_metadata that reads the mirror of the home thread.
get_namespaces_metadata_home(c) == nsCache[NodeOf(c)][HomeThread]

get_namespaces_metadata(c) == nsCache[NodeOf(c)][ThreadOf(c)]

get_databases_metadata(c) == dbCache[NodeOf(c)][ThreadOf(c)]

db_list(dbs) == {dbs[id].name : id \in {i \in DOMAIN dbs : ~dbs[i].deleted}}

DbList(c) ==
    /\ Idle(c) /\ Running(c)
    /\ call' = [call EXCEPT ![c] =
            Finish([NewCall(@, "db_list", "", "done")
                        EXCEPT !.out = db_list(get_databases_metadata(c))], "ok")]
    /\ UNCHANGED <<store, nsCache, dbCache, readiness, hist>>

DbFind(c, name) ==
    LET found == find_db_by_name(get_databases_metadata(c), name)
        status == check_metadata_status(search_status(found), TRUE)
        rec == NewCall(call[c], "db_find", name, "done")
    IN  /\ Idle(c) /\ Running(c)
        /\ call' = [call EXCEPT ![c] =
                IF status = "ok"
                THEN Finish([rec EXCEPT !.db = TheOne(found)], "ok")
                ELSE Fail(rec, status)]
        /\ UNCHANGED <<store, nsCache, dbCache, readiness, hist>>

\* table_list that lists the tables of every database.
table_list_every_db(nss, db) == {nss[id].name : id \in find_ns_all(nss)}

table_list(nss, db) == {nss[id].name : id \in find_ns_by_db(nss, db)}

TableList(c) ==
    LET names == table_list(get_namespaces_metadata(c), call[c].db)
    IN  /\ Idle(c) /\ Running(c) /\ call[c].db # NoId
        /\ call' = [call EXCEPT ![c] =
                Finish([NewCall(@, "table_list", "", "done") EXCEPT !.out = names], "ok")]
        /\ UNCHANGED <<store, nsCache, dbCache, readiness, hist>>

\* table_find, lines 329-353: the table of that name in the namespaces
\* mirror of the caller's thread, then the namespace interface of the
\* repository (which may suspend), then the handle: the table's id and its
\* primary key.
TableFindCall(c, name) ==
    /\ Idle(c) /\ Running(c) /\ call[c].db # NoId
    /\ call' = [call EXCEPT ![c] = NewCall(@, "table_find", name, "tf_find")]
    /\ UNCHANGED <<store, nsCache, dbCache, readiness, hist>>

TableFindSearch(c) ==
    LET namespaces_metadata == get_namespaces_metadata(c)
        found == find_ns_by_name_db(namespaces_metadata, call[c].name, call[c].db)
        status == check_metadata_status(search_status(found), TRUE)
    IN  /\ call[c].pc = "tf_find" /\ Running(c)
        /\ call' = [call EXCEPT ![c] =
                IF status # "ok" THEN Fail(@, status)
                ELSE [@ EXCEPT !.pc = "tf_repo", !.it = TheOne(found),
                               !.primary_key =
                                    namespaces_metadata[TheOne(found)].primary_key]]
        /\ UNCHANGED <<store, nsCache, dbCache, readiness, hist>>

TableFindReturn(c) ==
    /\ call[c].pc = "tf_repo" /\ Running(c)
    /\ call' = [call EXCEPT ![c] =
            Finish([@ EXCEPT !.out = {<<call[c].it, call[c].primary_key>>}], "ok")]
    /\ UNCHANGED <<store, nsCache, dbCache, readiness, hist>>

\* The ids of a set in increasing order: the iteration order of a std::map.
RECURSIVE InOrder(_)
InOrder(S) ==
    IF S = {} THEN <<>>
    ELSE LET m == CHOOSE x \in S : \A y \in S : x <= y
         IN  <<m>> \o InOrder(S \ {m})

\* The iteration order of a std::set<name_string_t>.
NameOrder == <<"t", "u">>
FirstName(S) == NameOrder[CHOOSE i \in 1..Len(NameOrder) :
                    /\ NameOrder[i] \in S
                    /\ \A j \in 1..(i - 1) : NameOrder[j] \notin S]

\* get_table_ids_for_query, lines 355-388: the status is that of the first
\* name that does not resolve.
get_table_ids_for_query(nss, db, table_names) ==
    LET st(name) == check_metadata_status(
                        search_status(find_ns_by_name_db(nss, name, db)), TRUE)
        bad == {name \in table_names : st(name) # "ok"}
    IN  IF table_names = {}
        THEN [status |-> "ok", ids |-> find_ns_by_db(nss, db), name |-> ""]
        ELSE IF bad = {}
        THEN [status |-> "ok", name |-> "",
              ids |-> UNION {find_ns_by_name_db(nss, name, db) : name \in table_names}]
        ELSE [status |-> st(FirstName(bad)), ids |-> {}, name |-> FirstName(bad)]

\* Lines 371 and 383: the pairs inserted into table_map_out.
table_map_out(nss, ids) == {<<id, nss[id].name>> : id \in ids}

\* One call of get_table_ids_for_query with the caller's handle: what it
\* returned stays with the caller.
GetTableIds(c, table_names) ==
    LET nss == get_namespaces_metadata(c)
        q == get_table_ids_for_query(nss, call[c].db, table_names)
        rec == [NewCall(call[c], "get_table_ids_for_query", q.name, "done")
                    EXCEPT !.tables = table_names, !.result = q.status,
                           !.out = table_map_out(nss, q.ids)]
    IN  /\ Idle(c) /\ Running(c) /\ call[c].db # NoId
        /\ call' = [call EXCEPT ![c] = IF q.status = "fatal" THEN Fatal(rec) ELSE rec]
        /\ UNCHANGED <<store, nsCache, dbCache, readiness, hist>>

\* ------------------------------------------------------- table readiness
\* table_status_artificial_table_backend_t::get_table_readiness: nothing for
\* a table the node's metadata does not hold or holds deleted, else the
\* readiness the directory shows.
get_table_readiness(n, id) ==
    IF id \in DOMAIN store[n].rdb_namespaces /\ ~store[n].rdb_namespaces[id].deleted
    THEN readiness[id]
    ELSE NoReadiness

\* do_check that takes a table without readiness for not ready.
do_check_present_only(n, id, wait_readiness) ==
    /\ get_table_readiness(n, id) # NoReadiness
    /\ get_table_readiness(n, id) >= wait_readiness

\* table_waiter_t::do_check, lines 480-491.
do_check(n, id, wait_readiness) ==
    \/ get_table_readiness(n, id) = NoReadiness
    \/ get_table_readiness(n, id) >= wait_readiness

\* The waiters among ids[from..to] that do_check marks deleted.
MarkedDeleted(n, ids, from, to) ==
    {ids[j] : j \in {k \in from..to : get_table_readiness(n, ids[k]) = NoReadiness}}

\* The loop without its second pass: it is left as soon as the last
\* wait_ready has returned.
RECURSIVE run_waiters_once(_, _, _, _, _, _)
run_waiters_once(n, ids, wait_readiness, w, immediate, deleted) ==
    IF w > Len(ids)
    THEN [exit |-> TRUE, w |-> 0, immediate |-> immediate, deleted |-> deleted]
    ELSE IF do_check(n, ids[w], wait_readiness)
         THEN run_waiters_once(n, ids, wait_readiness, w + 1, immediate,
                    deleted \cup MarkedDeleted(n, ids, w, w))
         ELSE [exit |-> FALSE, w |-> w, immediate |-> immediate, deleted |-> deleted]

\* table_wait's loop, lines 548-571, from waiter w on until a wait_ready
\* suspends or the loop is left.
RECURSIVE run_waiters(_, _, _, _, _, _)
run_waiters(n, ids, wait_readiness, w, immediate, deleted) ==
    IF w > Len(ids)
    THEN IF ~immediate /\ Len(ids) > 1
         THEN \* the second pass: check_ready of every waiter, up to the first
              \* that is not ready
              LET unready == {j \in 1..Len(ids) : ~do_check(n, ids[j], wait_readiness)}
                  first == CHOOSE j \in unready : \A k \in unready : j <= k
              IN  IF unready = {}
                  THEN [exit |-> TRUE, w |-> 0, immediate |-> immediate,
                        deleted |-> deleted \cup MarkedDeleted(n, ids, 1, Len(ids))]
                  ELSE run_waiters(n, ids, wait_readiness, 1, TRUE,
                            deleted \cup MarkedDeleted(n, ids, 1, first - 1))
         ELSE [exit |-> TRUE, w |-> 0, immediate |-> immediate, deleted |-> deleted]
    ELSE IF do_check(n, ids[w], wait_readiness)
         THEN run_waiters(n, ids, wait_readiness, w + 1, immediate,
                    deleted \cup MarkedDeleted(n, ids, w, w))
         ELSE [exit |-> FALSE, w |-> w, immediate |-> immediate, deleted |-> deleted]

\* The call after its table_wait loop ran to r.
AfterRun(rec, r) ==
    IF ~r.exit
    THEN [rec EXCEPT !.w = r.w, !.immediate = r.immediate, !.deleted = r.deleted,
                     !.notified = FALSE]
    ELSE IF rec.op = "table_create"
    THEN \* resp_out is NULL; wait_res is dropped, lines 268-273
         [rec EXCEPT !.pc = "prop_ns", !.w = 0, !.deleted = r.deleted,
                     !.immediate = r.immediate, !.notified = FALSE,
                     !.waited = IF rec.ids[1] \in r.deleted THEN "deleted" ELSE "ready"]
    ELSE [rec EXCEPT !.pc = "tw_read", !.w = 0, !.deleted = r.deleted,
                     !.immediate = r.immediate, !.notified = FALSE]

TableWaitRun(c) ==
    /\ call[c].pc = "tw_loop" /\ call[c].w = 0 /\ Running(c)
    /\ call' = [call EXCEPT ![c] =
            AfterRun(@, run_waiters(NodeOf(c), @.ids, @.readiness, 1, TRUE, @.deleted))]
    /\ UNCHANGED <<store, nsCache, dbCache, readiness, hist>>

\* wait_ready that reports IMMEDIATE although it was woken.
TableWaitWakeImmediate(c) ==
    /\ call[c].pc = "tw_loop" /\ call[c].w > 0 /\ call[c].notified /\ Running(c)
    /\ call' = [call EXCEPT ![c] =
            IF do_check(NodeOf(c), @.ids[@.w], @.readiness)
            THEN AfterRun(@, run_waiters(NodeOf(c), @.ids, @.readiness, @.w + 1,
                        @.immediate,
                        @.deleted \cup MarkedDeleted(NodeOf(c), @.ids, @.w, @.w)))
            ELSE [@ EXCEPT !.notified = FALSE]]
    /\ UNCHANGED <<store, nsCache, dbCache, readiness, hist>>

\* wait_ready, lines 459-469: woken by the directory, the waiter checks again.
TableWaitWake(c) ==
    /\ call[c].pc = "tw_loop" /\ call[c].w > 0 /\ call[c].notified /\ Running(c)
    /\ call' = [call EXCEPT ![c] =
            IF do_check(NodeOf(c), @.ids[@.w], @.readiness)
            THEN AfterRun(@, run_waiters(NodeOf(c), @.ids, @.readiness, @.w + 1, FALSE,
                        @.deleted \cup MarkedDeleted(NodeOf(c), @.ids, @.w, @.w)))
            ELSE [@ EXCEPT !.notified = FALSE]]
    /\ UNCHANGED <<store, nsCache, dbCache, readiness, hist>>

\* The directory entry of a table changes: its waiters are notified.
DirectoryChange(id, level) ==
    /\ \E n \in Nodes : id \in find_ns_all(store[n].rdb_namespaces)
    /\ readiness[id] # level
    /\ readiness' = [readiness EXCEPT ![id] = level]
    /\ call' = [c \in Callers |->
            IF call[c].pc = "tw_loop" /\ call[c].w > 0 /\ call[c].ids[call[c].w] = id
            THEN [call[c] EXCEPT !.notified = TRUE]
            ELSE call[c]]
    /\ hist' = IF hist.dir /\ level >= Writes
               THEN [hist EXCEPT !.reached = @ \cup {id}] ELSE hist
    /\ UNCHANGED <<store, nsCache, dbCache>>

\* The servers that hosted a table withdraw their directory entries after
\* it was deleted: its waiters are notified.  Nothing obliges a server to
\* have had an entry.
DirectoryRetract(id) ==
    /\ \E n \in Nodes : /\ id \in DOMAIN store[n].rdb_namespaces
                        /\ store[n].rdb_namespaces[id].deleted
    /\ readiness[id] # Unready
    /\ readiness' = [readiness EXCEPT ![id] = Unready]
    /\ call' = [c \in Callers |->
            IF call[c].pc = "tw_loop" /\ call[c].w > 0 /\ call[c].ids[call[c].w] = id
            THEN [call[c] EXCEPT !.notified = TRUE]
            ELSE call[c]]
    /\ UNCHANGED <<store, nsCache, dbCache, hist>>

\* table_wait, lines 517-592.
TableWaitCall(c, tables, level) ==
    LET q == get_table_ids_for_query(get_namespaces_metadata(c), call[c].db, tables)
        rec == [NewCall(call[c], "table_wait", "", "tw_loop")
                    EXCEPT !.tables = tables, !.readiness = level]
    IN  /\ Idle(c) /\ Running(c) /\ call[c].db # NoId
        /\ call' = [call EXCEPT ![c] =
                IF q.status = "ok"
                THEN [rec EXCEPT !.ids = InOrder(q.ids)]
                ELSE Fail(rec, q.status)]
        /\ UNCHANGED <<store, nsCache, dbCache, readiness, hist>>

\* Lines 573-583: table_meta_read gives a row for every table the backend
\* still has.
TableWaitRead(c) ==
    LET n == NodeOf(c)
        rows == {j \in 1..Len(call[c].ids) :
                    get_table_readiness(n, call[c].ids[j]) # NoReadiness}
    IN  /\ call[c].pc = "tw_read" /\ Running(c)
        /\ call' = [call EXCEPT ![c] =
                IF call[c].tables # {} /\ Cardinality(call[c].tables) # Cardinality(rows)
                THEN Finish(@, "does_not_exist")
                ELSE Finish(@, "ok")]
        /\ UNCHANGED <<store, nsCache, dbCache, readiness, hist>>

\* ---------------------------------------------------------- table_create
TableCreateCall(c, name, primary_key) ==
    /\ Idle(c) /\ Running(c) /\ call[c].db # NoId
    /\ call' = [call EXCEPT ![c] =
            [NewCall(@, "table_create", name, "tc_home")
                EXCEPT !.primary_key = primary_key]]
    /\ UNCHANGED <<store, nsCache, dbCache, readiness, hist>>

\* Lines 184-214: the snapshot and the check for an existing table.
table_create_check(metadata, name, db) ==
    check_metadata_status(
        search_status(find_ns_by_name_db(metadata.rdb_namespaces, name, db)), FALSE)

\* calculate_server_usage over the tables `ids` of a snapshot.
server_usage(nss, ids) ==
    [s \in MoreServers |->
        Cardinality({id \in ids : nss[id].replication_info.config = s})]

\* The usage of every entry of the snapshot, deleted or not.
table_create_usage_all(metadata) ==
    server_usage(metadata.rdb_namespaces, DOMAIN metadata.rdb_namespaces)

\* Lines 221-231: every table of the snapshot that is not deleted.
table_create_usage(metadata) ==
    server_usage(metadata.rdb_namespaces, find_ns_all(metadata.rdb_namespaces))

TableCreateHome(c) ==
    LET metadata == store[NodeOf(c)]
        status == table_create_check(metadata, call[c].name, call[c].db)
    IN  /\ call[c].pc = "tc_home" /\ Running(c)
        /\ call' = [call EXCEPT ![c] =
                IF status # "ok" THEN Fail(@, status)
                ELSE [@ EXCEPT !.pc = "tc_gen", !.metadata = metadata,
                               !.server_usage = table_create_usage(metadata)]]
        /\ UNCHANGED <<store, nsCache, dbCache, readiness, hist>>

NewStamp ==
    1 + (CHOOSE m \in 0..MaxStamp :
            /\ \A n \in Nodes : \A id \in DOMAIN store[n].rdb_namespaces :
                    store[n].rdb_namespaces[id].replication_info.stamp <= m
            /\ \/ m = 0
               \/ \E n \in Nodes : \E id \in DOMAIN store[n].rdb_namespaces :
                    store[n].rdb_namespaces[id].replication_info.stamp = m)

\* Lines 244-256: the new table, inserted into the snapshot.
table_create_insert(metadata, id, name, db, primary_key, config) ==
    [metadata EXCEPT !.rdb_namespaces =
        namespaces_join(@, id :>
            [name |-> name, database |-> db, primary_key |-> primary_key,
             replication_info |-> [stamp |-> 0, config |-> config],
             deleted |-> FALSE])]

\* Lines 237-259: table_generate_config returns (it may have suspended), the
\* table goes into the snapshot read before, and the snapshot is joined.
NoConfig == "error"

\* table_create that joins the new table before it asks the generator.
TableCreateJoinsFirst(c, config) ==
    LET n == NodeOf(c)
        id == generate_ns_uuid
    IN  /\ call[c].pc = "tc_gen" /\ Running(c)
        /\ HasFreshNs
        /\ store' = [store EXCEPT ![n] = semilattice_join(@,
                table_create_insert(call[c].metadata, id, call[c].name,
                    call[c].db, call[c].primary_key,
                    IF config = NoConfig THEN "s1" ELSE config))]
        /\ call' = [call EXCEPT ![c] =
                IF config = NoConfig
                THEN Finish(@, "config_error")
                ELSE [@ EXCEPT !.pc = "tc_prop_ns", !.metadata = store'[n],
                               !.namespace_id = id, !.server_usage = NoUsage]]
        /\ UNCHANGED <<nsCache, dbCache, readiness, hist>>

TableCreateGenerate(c, config) ==
    LET n == NodeOf(c)
        id == generate_ns_uuid
    IN  /\ call[c].pc = "tc_gen" /\ Running(c)
        /\ IF config = NoConfig
           THEN /\ call' = [call EXCEPT ![c] = Finish(@, "config_error")]
                /\ UNCHANGED store
           ELSE /\ HasFreshNs
                /\ store' = [store EXCEPT ![n] = semilattice_join(@,
                        table_create_insert(call[c].metadata, id, call[c].name,
                            call[c].db, call[c].primary_key, config))]
                /\ call' = [call EXCEPT ![c] =
                        [@ EXCEPT !.pc = "tc_prop_ns", !.metadata = store'[n],
                                  !.namespace_id = id,
                                  !.server_usage = NoUsage]]  \* not read again
        /\ UNCHANGED <<nsCache, dbCache, readiness, hist>>

\* Line 261: wait_for_metadata_to_propagate on the home thread.
TableCreateWaitNs(c) ==
    /\ call[c].pc = "tc_prop_ns" /\ Running(c)
    /\ is_joined_ns(nsCache[NodeOf(c)][HomeThread], call[c].metadata.rdb_namespaces)
    /\ call' = [call EXCEPT ![c].pc = "tc_prop_db"]
    /\ UNCHANGED <<store, nsCache, dbCache, readiness, hist>>

\* table_create that goes on to its return without the table_wait.
TableCreateNoWait(c) ==
    /\ call[c].pc = "tc_prop_db" /\ Running(c)
    /\ is_joined_db(dbCache[NodeOf(c)][HomeThread], call[c].metadata.databases)
    /\ call' = [call EXCEPT ![c] = [@ EXCEPT !.pc = "prop_ns", !.waited = "unresolved"]]
    /\ UNCHANGED <<store, nsCache, dbCache, readiness, hist>>

\* Lines 261-271: the databases mirror of the home thread has caught up and
\* table_wait resolves the name in the namespaces mirror of the home thread.
TableCreateWaitDb(c) ==
    LET n == NodeOf(c)
        q == get_table_ids_for_query(nsCache[n][HomeThread], call[c].db, {call[c].name})
    IN  /\ call[c].pc = "tc_prop_db" /\ Running(c)
        /\ is_joined_db(dbCache[n][HomeThread], call[c].metadata.databases)
        /\ call' = [call EXCEPT ![c] =
                CASE q.status = "ok" ->
                        [@ EXCEPT !.pc = "tw_loop", !.ids = InOrder(q.ids),
                                  !.readiness = Writes]
                  [] q.status = "fatal" -> Fatal(@)
                  [] OTHER -> [@ EXCEPT !.pc = "prop_ns", !.waited = "unresolved"]]
        /\ UNCHANGED <<store, nsCache, dbCache, readiness, hist>>

\* ------------------------------------------------------------ table_drop
TableDropCall(c, name) ==
    /\ Idle(c) /\ Running(c) /\ call[c].db # NoId
    /\ call' = [call EXCEPT ![c] = NewCall(@, "table_drop", name, "td_home")]
    /\ UNCHANGED <<store, nsCache, dbCache, readiness, hist>>

table_drop_mark(metadata, id) ==
    [metadata EXCEPT !.rdb_namespaces[id].deleted = TRUE]

TableDropHome(c) ==
    LET n == NodeOf(c)
        metadata == store[n]
        found == find_ns_by_name_db(metadata.rdb_namespaces, call[c].name, call[c].db)
        status == check_metadata_status(search_status(found), TRUE)
    IN  /\ call[c].pc = "td_home" /\ Running(c)
        /\ IF status # "ok"
           THEN /\ call' = [call EXCEPT ![c] = Fail(@, status)]
                /\ UNCHANGED store
           ELSE /\ store' = [store EXCEPT ![n] =
                        semilattice_join(@, table_drop_mark(metadata, TheOne(found)))]
                /\ call' = [call EXCEPT ![c] =
                        [@ EXCEPT !.pc = "prop_ns", !.metadata = store'[n],
                                  !.it = TheOne(found)]]
        /\ UNCHANGED <<nsCache, dbCache, readiness, hist>>

\* ------------------------------------------- table_config, table_status
\* The row an introspection backend has for table id: none for a table the
\* node's metadata does not hold or holds deleted.
backend_rows(n, backend, id) ==
    IF id \in DOMAIN store[n].rdb_namespaces /\ ~store[n].rdb_namespaces[id].deleted
    THEN {<<id, IF backend = "table_config"
                THEN store[n].rdb_namespaces[id].replication_info.config
                ELSE readiness[id]>>}
    ELSE {}

\* table_meta_read, lines 723-743: the rows the backend has for the ids.
table_meta_read(n, backend, ids) ==
    UNION {backend_rows(n, backend, ids[j]) : j \in 1..Len(ids)}

\* table_meta_read_by_name, lines 753-756, for table_config (407-423) and
\* table_status (425-441): the ids of the names in the caller's mirror.
TableMetaCall(c, backend, tables) ==
    LET q == get_table_ids_for_query(get_namespaces_metadata(c), call[c].db, tables)
        rec == [NewCall(call[c], backend, "", "tm_read") EXCEPT !.tables = tables]
    IN  /\ Idle(c) /\ Running(c) /\ call[c].db # NoId
        /\ call' = [call EXCEPT ![c] =
                IF q.status = "ok"
                THEN [rec EXCEPT !.ids = InOrder(q.ids)]
                ELSE Fail(rec, q.status)]
        /\ UNCHANGED <<store, nsCache, dbCache, readiness, hist>>

\* table_meta_read_by_name that does not count the rows.
TableMetaReadNoCount(c) ==
    LET rows == table_meta_read(NodeOf(c), call[c].op, call[c].ids)
    IN  /\ call[c].pc = "tm_read" /\ Running(c)
        /\ call' = [call EXCEPT ![c] = Finish([@ EXCEPT !.out = rows], "ok")]
        /\ UNCHANGED <<store, nsCache, dbCache, readiness, hist>>

\* Lines 758-767: the rows are read and counted against the names.
TableMetaRead(c) ==
    LET rows == table_meta_read(NodeOf(c), call[c].op, call[c].ids)
    IN  /\ call[c].pc = "tm_read" /\ Running(c)
        /\ call' = [call EXCEPT ![c] =
                IF call[c].tables # {} /\ Cardinality(call[c].tables) # Cardinality(rows)
                THEN Finish(@, "does_not_exist")
                ELSE Finish([@ EXCEPT !.out = rows], "ok")]
        /\ UNCHANGED <<store, nsCache, dbCache, readiness, hist>>

\* ------------------------------------------------------ table_reconfigure
TableReconfigureCall(c, name, dry_run) ==
    /\ Idle(c) /\ Running(c) /\ call[c].db # NoId
    /\ call' = [call EXCEPT ![c] =
            [NewCall(@, "table_reconfigure", name, "tr_home") EXCEPT !.dry_run = dry_run]]
    /\ UNCHANGED <<store, nsCache, dbCache, readiness, hist>>

\* Lines 619-630: every table of the snapshot but the one reconfigured.
table_reconfigure_usage(metadata, id) ==
    server_usage(metadata.rdb_namespaces, find_ns_all(metadata.rdb_namespaces) \ {id})

\* Lines 608-630.
TableReconfigureHome(c) ==
    LET metadata == store[NodeOf(c)]
        found == find_ns_by_name_db(metadata.rdb_namespaces, call[c].name, call[c].db)
        status == check_metadata_status(search_status(found), TRUE)
    IN  /\ call[c].pc = "tr_home" /\ Running(c)
        /\ call' = [call EXCEPT ![c] =
                IF status # "ok" THEN Fail(@, status)
                ELSE [@ EXCEPT !.pc = "tr_split", !.metadata = metadata,
                               !.it = TheOne(found),
                               !.server_usage =
                                    table_reconfigure_usage(metadata, TheOne(found))]]
        /\ UNCHANGED <<store, nsCache, dbCache, readiness, hist>>

\* Lines 634-643: calculate_split_points_intelligently returns.
TableReconfigureSplit(c, ok) ==
    /\ call[c].pc = "tr_split" /\ Running(c)
    /\ call' = [call EXCEPT ![c] =
            IF ok THEN [@ EXCEPT !.pc = "tr_gen"] ELSE Finish(@, "config_error")]
    /\ UNCHANGED <<store, nsCache, dbCache, readiness, hist>>

table_reconfigure_set(metadata, id, stamp, config) ==
    [metadata EXCEPT !.rdb_namespaces[id].replication_info =
        [stamp |-> stamp, config |-> config]]

\* The history after call c joined its snapshot: it notes a join of a
\* snapshot that holds a table the store has deleted meanwhile.
JoinedStale(c) ==
    [hist EXCEPT !.stale = @ \/ store[NodeOf(c)].rdb_namespaces[call[c].it].deleted]

\* table_reconfigure that puts its changed snapshot in the place of the
\* store's metadata.
TableReconfigureOverwrites(c, config) ==
    LET n == NodeOf(c)
    IN  /\ call[c].pc = "tr_gen" /\ Running(c)
        /\ IF config = NoConfig
           THEN /\ call' = [call EXCEPT ![c] = Finish(@, "config_error")]
                /\ UNCHANGED <<store, hist>>
           ELSE IF call[c].dry_run
           THEN /\ call' = [call EXCEPT ![c] = Finish([@ EXCEPT !.out = {config}], "ok")]
                /\ UNCHANGED <<store, hist>>
           ELSE /\ NewStamp <= MaxStamp
                /\ store' = [store EXCEPT ![n] =
                        table_reconfigure_set(call[c].metadata, call[c].it,
                                              NewStamp, config)]
                /\ call' = [call EXCEPT ![c] = Finish([@ EXCEPT !.out = {config}], "ok")]
                /\ hist' = JoinedStale(c)
        /\ UNCHANGED <<nsCache, dbCache, readiness>>

\* table_reconfigure that commits whatever dry_run says.
TableReconfigureAlwaysCommits(c, config) ==
    LET n == NodeOf(c)
    IN  /\ call[c].pc = "tr_gen" /\ Running(c)
        /\ IF config = NoConfig
           THEN /\ call' = [call EXCEPT ![c] = Finish(@, "config_error")]
                /\ UNCHANGED store
           ELSE /\ NewStamp <= MaxStamp
                /\ store' = [store EXCEPT ![n] = semilattice_join(@,
                        table_reconfigure_set(call[c].metadata, call[c].it,
                                              NewStamp, config))]
                /\ call' = [call EXCEPT ![c] = Finish([@ EXCEPT !.out = {config}], "ok")]
        /\ UNCHANGED <<nsCache, dbCache, readiness, hist>>

\* Lines 647-669: table_generate_config returns; the commit joins the
\* snapshot and the call returns.
TableReconfigureGenerate(c, config) ==
    LET n == NodeOf(c)
    IN  /\ call[c].pc = "tr_gen" /\ Running(c)
        /\ IF config = NoConfig
           THEN /\ call' = [call EXCEPT ![c] = Finish(@, "config_error")]
                /\ UNCHANGED <<store, hist>>
           ELSE IF call[c].dry_run
           THEN /\ call' = [call EXCEPT ![c] = Finish([@ EXCEPT !.out = {config}], "ok")]
                /\ UNCHANGED <<store, hist>>
           ELSE /\ NewStamp <= MaxStamp
                /\ store' = [store EXCEPT ![n] = semilattice_join(@,
                        table_reconfigure_set(call[c].metadata, call[c].it,
                                              NewStamp, config))]
                /\ call' = [call EXCEPT ![c] = Finish([@ EXCEPT !.out = {config}], "ok")]
                /\ hist' = JoinedStale(c)
        /\ UNCHANGED <<nsCache, dbCache, readiness>>

\* ------------------------------------------------------------ interruptor
\* The interruptor is pulsed while the call is suspended: its wait throws
\* interrupted_exc_t.
Suspended(rec) ==
    \/ rec.pc \in {"prop_ns", "prop_db", "tc_gen", "tc_prop_ns", "tc_prop_db",
                   "tr_split", "tr_gen", "tf_repo", "tm_read", "tw_read"}
    \/ rec.pc = "tw_loop" /\ rec.w > 0

\* A cancellation that table_create drops like the failure of its inner
\* table_wait.
InterruptDroppedByCreate(c) ==
    /\ Suspended(call[c]) /\ Running(c)
    /\ call' = [call EXCEPT ![c] =
            IF @.op = "table_create" /\ @.pc = "tw_loop"
            THEN [@ EXCEPT !.pc = "prop_ns", !.w = 0, !.notified = FALSE,
                           !.waited = "cancelled"]
            ELSE Finish(@, "cancelled")]
    /\ UNCHANGED <<store, nsCache, dbCache, readiness, hist>>

\* The interruptor is pulsed while the call is suspended: the wait throws
\* and no operation catches it.
Interrupt(c) ==
    /\ Suspended(call[c]) /\ Running(c)
    /\ call' = [call EXCEPT ![c] = Finish(@, "cancelled")]
    /\ UNCHANGED <<store, nsCache, dbCache, readiness, hist>>

\* ------------------------------------------------------------------ init
NoHist ==
    [calls |-> FALSE, dbs |-> {}, tables |-> {}, made |-> {}, dir |-> FALSE,
     reached |-> {}, stale |-> FALSE]

\* A cluster whose nodes all hold `metadata`, with every mirror caught up;
\* the callers of `holders` hold a database handle of `handles`.
InitWith(metadata, holders, handles, h) ==
    /\ store = [n \in Nodes |-> metadata]
    /\ nsCache = [n \in Nodes |-> [t \in Threads |-> metadata.rdb_namespaces]]
    /\ dbCache = [n \in Nodes |-> [t \in Threads |-> metadata.databases]]
    /\ readiness = [id \in TableIds |-> Unready]
    /\ \E f \in [holders -> handles] :
            call = [c \in Callers |->
                        IF c \in holders THEN [NoCall EXCEPT !.db = f[c]] ELSE NoCall]
    /\ hist = h

\* A cluster that already holds the databases "a" and "b".
TwoDatabases ==
    [databases |-> (1 :> [name |-> "a", deleted |-> FALSE])
                    @@ (2 :> [name |-> "b", deleted |-> FALSE]),
     rdb_namespaces |-> EmptyMap]

\* ----------------------------------------------------------- the parts
DbNext(c) ==
    \/ \E name \in DbNames : DbCreateCall(c, name)
    \/ DbCreateHome(c)
    \/ \E name \in DbNames : DbDropCall(c, name)
    \/ DbDropHome(c)

Barrier(c) ==
    \/ WaitNs(c)
    \/ WaitDb(c)

TableCreateNext(c) ==
    \/ \E name \in TableNames, pk \in PrimaryKeys : TableCreateCall(c, name, pk)
    \/ TableCreateHome(c)
    \/ \E config \in Servers \cup {NoConfig} : TableCreateGenerate(c, config)
    \/ TableCreateWaitNs(c)
    \/ TableCreateWaitDb(c)
    \/ TableWaitRun(c)
    \/ TableWaitWake(c)

TableDropNext(c) ==
    \/ \E name \in TableNames : TableDropCall(c, name)
    \/ TableDropHome(c)

TableReconfigureNext(c) ==
    \/ \E name \in TableNames, dry_run \in BOOLEAN : TableReconfigureCall(c, name, dry_run)
    \/ TableReconfigureHome(c)
    \/ \E ok \in BOOLEAN : TableReconfigureSplit(c, ok)
    \/ \E config \in Servers \cup {NoConfig} : TableReconfigureGenerate(c, config)

\* ------------------------------------------------------- specifications
\* Two nodes, one caller on each, creating and dropping databases while the
\* nodes exchange their metadata.
InitCluster == InitWith(EmptyMetadata, {}, {NoId}, NoHist)

NextCluster ==
    \/ \E c \in {"c1", "c3"} : DbNext(c)
    \/ \E c \in {"c1", "c3"} : Barrier(c)
    \/ \E c \in {"c1", "c3"} : PropagateDb(NodeOf(c), ThreadOf(c))
    \/ \E n \in Nodes, m \in Nodes : Gossip(n, m)

SpecCluster == InitCluster /\ [][NextCluster]_vars

\* One node, one caller, databases only.
InitSoloDb == InitWith(EmptyMetadata, {}, {NoId}, [NoHist EXCEPT !.calls = TRUE])

NextSoloDb ==
    \/ DbNext("c1")
    \/ Barrier("c1")
    \/ DbList("c1")
    \/ PropagateDb("n1", "worker")

SpecSoloDb == InitSoloDb /\ [][NextSoloDb]_vars

\* One node, two callers (a worker thread, the home thread), databases only.
NextDb ==
    \/ \E c \in {"c1", "c2"} : DbNext(c)
    \/ \E c \in {"c1", "c2"} : Barrier(c)
    \/ \E c \in {"c1", "c2"} : Interrupt(c)
    \/ \E t \in Threads : PropagateDb("n1", t)

SpecDb == InitCluster /\ [][NextDb]_vars

\* One node, two callers holding database handles: both create tables and
\* the one on the home thread also drops them, while the directory reports
\* the tables ready for writes.
InitRace ==
    InitWith(TwoDatabases, {"c1", "c2"}, DOMAIN TwoDatabases.databases,
             [NoHist EXCEPT !.dir = TRUE])

NextRace ==
    \/ \E c \in {"c1", "c2"} : TableCreateNext(c)
    \/ TableDropNext("c2")
    \/ \E c \in {"c1", "c2"} : Barrier(c)
    \/ \E t \in Threads : PropagateNs("n1", t)
    \/ \E id \in TableIds : DirectoryChange(id, Writes)

SpecRace == InitRace /\ [][NextRace]_vars

\* One node, one caller on a worker thread, working on the tables of the
\* databases "a" and "b".
InitSoloTable ==
    InitWith(TwoDatabases, {}, {NoId}, [NoHist EXCEPT !.calls = TRUE, !.dir = TRUE])

NextSoloTable ==
    \/ \E name \in DbNames : DbFind("c1", name)
    \/ TableCreateNext("c1")
    \/ TableDropNext("c1")
    \/ Barrier("c1")
    \/ TableList("c1")
    \/ \E t \in Threads : PropagateNs("n1", t)
    \/ \E id \in TableIds : DirectoryChange(id, Writes)

SpecSoloTable == InitSoloTable /\ [][NextSoloTable]_vars

\* One node, one caller on a worker thread, every mutating operation.
InitSolo == InitWith(EmptyMetadata, {}, {NoId}, NoHist)

NextSolo ==
    \/ DbNext("c1")
    \/ \E name \in DbNames : DbFind("c1", name)
    \/ TableCreateNext("c1")
    \/ TableDropNext("c1")
    \/ TableReconfigureNext("c1")
    \/ Barrier("c1")
    \/ \E t \in Threads : PropagateNs("n1", t)
    \/ \E t \in Threads : PropagateDb("n1", t)
    \/ \E id \in TableIds : DirectoryChange(id, Writes)

SpecSolo == InitSolo /\ [][NextSolo]_vars

\* One node, two callers: the one on a worker thread finds databases and
\* creates tables in them while the one on the home thread drops databases.
DbDropOnly(c) ==
    \/ \E name \in DbNames : DbDropCall(c, name)
    \/ DbDropHome(c)

InitDrop ==
    InitWith(TwoDatabases, {"c1"}, DOMAIN TwoDatabases.databases,
             [NoHist EXCEPT !.dir = TRUE])

NextDrop ==
    \/ \E name \in DbNames : DbFind("c1", name)
    \/ TableCreateNext("c1")
    \/ DbDropOnly("c2")
    \/ \E c \in {"c1", "c2"} : Barrier(c)
    \/ \E t \in Threads : PropagateNs("n1", t)
    \/ \E t \in Threads : PropagateDb("n1", t)
    \/ \E id \in TableIds : DirectoryChange(id, Writes)

SpecDrop == InitDrop /\ [][NextDrop]_vars

\* One node holding the tables "t" and "u" of database "a": one caller
\* waits for them while the other drops tables and the directory changes.
TwoTables ==
    [TwoDatabases EXCEPT !.rdb_namespaces =
        (1 :> [name |-> "t", database |-> 1, primary_key |-> "id",
               replication_info |-> [stamp |-> 0, config |-> "s1"], deleted |-> FALSE])
        @@ (2 :> [name |-> "u", database |-> 1, primary_key |-> "id",
                  replication_info |-> [stamp |-> 0, config |-> "s1"], deleted |-> FALSE])]

InitWait == InitWith(TwoTables, {"c1", "c2"}, {1}, NoHist)

NextWait ==
    \/ \E tables \in SUBSET TableNames, level \in {Writes, Reads} :
            TableWaitCall("c1", tables, level)
    \/ TableWaitRun("c1")
    \/ TableWaitWake("c1")
    \/ TableWaitRead("c1")
    \/ TableDropNext("c2")
    \/ Barrier("c2")
    \/ \E t \in Threads : PropagateNs("n1", t)
    \/ \E id \in TableIds, level \in Levels : DirectoryChange(id, level)

SpecWait == InitWait /\ [][NextWait]_vars

\* The primary keys a caller may name when it looks its tables up again.
FindKeys == {"id", "k"}

TableCreateWith(c, keys) ==
    \/ \E name \in TableNames, pk \in keys : TableCreateCall(c, name, pk)
    \/ TableCreateHome(c)
    \/ \E config \in Servers \cup {NoConfig} : TableCreateGenerate(c, config)
    \/ TableCreateWaitNs(c)
    \/ TableCreateWaitDb(c)
    \/ TableWaitRun(c)
    \/ TableWaitWake(c)

TableFindNext(c) ==
    \/ \E name \in TableNames : TableFindCall(c, name)
    \/ TableFindSearch(c)
    \/ TableFindReturn(c)

\* One node, one caller on a worker thread that creates, drops and finds
\* tables of the database of its handle.
InitFindSolo ==
    InitWith(TwoDatabases, {"c1"}, {1}, [NoHist EXCEPT !.calls = TRUE, !.dir = TRUE])

NextFindSolo ==
    \/ TableCreateWith("c1", FindKeys)
    \/ TableDropNext("c1")
    \/ TableFindNext("c1")
    \/ Barrier("c1")
    \/ \E t \in Threads : PropagateNs("n1", t)
    \/ \E id \in TableIds : DirectoryChange(id, Writes)

SpecFindSolo == InitFindSolo /\ [][NextFindSolo]_vars

\* The same with a second caller, on the home thread, that creates tables in
\* the same database; nobody drops a table.
InitFind ==
    InitWith(TwoDatabases, {"c1", "c2"}, {1}, [NoHist EXCEPT !.calls = TRUE, !.dir = TRUE])

NextFind ==
    \/ \E c \in {"c1", "c2"} : TableCreateWith(c, FindKeys)
    \/ TableFindNext("c1")
    \/ \E c \in {"c1", "c2"} : Barrier(c)
    \/ \E t \in Threads : PropagateNs("n1", t)
    \/ \E id \in TableIds : DirectoryChange(id, Writes)

SpecFind == InitFind /\ [][NextFind]_vars

\* One node holding the tables "t" and "u": one caller tries new
\* configurations with dry_run and reads the configurations back while a
\* second caller drops tables.
InitDry == InitWith(TwoTables, {"c1", "c2"}, {1}, NoHist)

NextDry ==
    \/ \E name \in TableNames : TableReconfigureCall("c1", name, TRUE)
    \/ TableReconfigureHome("c1")
    \/ \E ok \in BOOLEAN : TableReconfigureSplit("c1", ok)
    \/ \E config \in MoreServers \cup {NoConfig} : TableReconfigureGenerate("c1", config)
    \/ \E tables \in SUBSET TableNames : TableMetaCall("c1", "table_config", tables)
    \/ TableMetaRead("c1")
    \/ Interrupt("c1")
    \/ TableDropNext("c2")
    \/ Barrier("c2")
    \/ \E t \in Threads : PropagateNs("n1", t)

SpecDry == InitDry /\ [][NextDry]_vars

\* One node holding the tables "t" and "u": one caller reads configurations
\* and statuses and waits for tables while a second caller drops them.
InitRows == InitWith(TwoTables, {"c1", "c2"}, {1}, NoHist)

NextRows ==
    \/ \E tables \in SUBSET TableNames, backend \in {"table_config", "table_status"} :
            TableMetaCall("c1", backend, tables)
    \/ TableMetaRead("c1")
    \/ \E tables \in SUBSET TableNames : TableWaitCall("c1", tables, Writes)
    \/ TableWaitRun("c1")
    \/ TableWaitWake("c1")
    \/ TableWaitRead("c1")
    \/ TableDropNext("c2")
    \/ Barrier("c2")
    \/ \E t \in Threads : PropagateNs("n1", t)
    \/ \E id \in TableIds : DirectoryChange(id, Writes)

SpecRows == InitRows /\ [][NextRows]_vars

\* The tables a node can hold: every id absent, or present with a name, a
\* database and a deletion mark.
TablesOf(ids) ==
    [ids -> [name : TableNames, database : DbIds, primary_key : {"id"},
             replication_info : {[stamp |-> 0, config |-> "s1"]}, deleted : BOOLEAN]]

SomeTables == UNION {TablesOf(ids) : ids \in SUBSET TableIds}

\* No two tables of nss that are not deleted share a name and a database.
UniqueNames(nss) ==
    \A i, j \in DOMAIN nss :
        (/\ ~nss[i].deleted /\ ~nss[j].deleted /\ nss[i].name = nss[j].name
         /\ nss[i].database = nss[j].database) => i = j

\* get_table_ids_for_query on every cache of the bounded size, called with
\* every name set and either database handle.
InitIds ==
    \E nss \in SomeTables :
        InitWith([TwoDatabases EXCEPT !.rdb_namespaces = nss], {"c1"}, DbIds, NoHist)

NextIds == \E table_names \in SUBSET TableNames : GetTableIds("c1", table_names)

SpecIds == InitIds /\ [][NextIds]_vars

\* The same on the caches in which names are unique.
InitIdsUnique ==
    \E nss \in {m \in SomeTables : UniqueNames(m)} :
        InitWith([TwoDatabases EXCEPT !.rdb_namespaces = nss], {"c1"}, DbIds, NoHist)

SpecIdsUnique == InitIdsUnique /\ [][NextIds]_vars

\* One caller with a database handle creates, drops and waits for tables
\* and may be cancelled whenever it is suspended.
InitCancel == InitWith(TwoDatabases, {"c1"}, {1}, NoHist)

NextCancel ==
    \/ TableCreateNext("c1")
    \/ TableDropNext("c1")
    \/ Barrier("c1")
    \/ \E tables \in SUBSET TableNames : TableWaitCall("c1", tables, Writes)
    \/ TableWaitRead("c1")
    \/ \E t \in Threads : PropagateNs("n1", t)
    \/ \E id \in TableIds, level \in {Unready, Writes} : DirectoryChange(id, level)
    \/ Interrupt("c1")

SpecCancel == InitCancel /\ [][NextCancel]_vars

\* A cluster that holds the table "t" in database "a".
OneTable ==
    [TwoDatabases EXCEPT !.rdb_namespaces =
        (1 :> [name |-> "t", database |-> 1, primary_key |-> "id",
               replication_info |-> [stamp |-> 0, config |-> "s1"], deleted |-> FALSE])]

\* One caller reconfigures and creates tables from snapshots that a second
\* caller's table_drop and db_drop overtake.
InitStale == InitWith(OneTable, {"c1", "c2"}, {1}, NoHist)

NextStale ==
    \/ \E dry_run \in BOOLEAN : TableReconfigureCall("c1", "t", dry_run)
    \/ TableReconfigureHome("c1")
    \/ \E ok \in BOOLEAN : TableReconfigureSplit("c1", ok)
    \/ \E config \in Servers \cup {NoConfig} : TableReconfigureGenerate("c1", config)
    \/ TableCreateCall("c1", "u", "id")
    \/ TableCreateHome("c1")
    \/ \E config \in Servers \cup {NoConfig} : TableCreateGenerate("c1", config)
    \/ TableCreateWaitNs("c1")
    \/ TableCreateWaitDb("c1")
    \/ TableWaitRun("c1")
    \/ TableWaitWake("c1")
    \/ TableDropCall("c2", "t")
    \/ TableDropHome("c2")
    \/ DbDropCall("c2", "a")
    \/ DbDropHome("c2")
    \/ \E c \in {"c1", "c2"} : Barrier(c)
    \/ \E t \in Threads : PropagateNs("n1", t)
    \/ \E t \in Threads : PropagateDb("n1", t)
    \/ \E id \in TableIds : DirectoryChange(id, Writes)

SpecStale == InitStale /\ [][NextStale]_vars

\* One caller waits for tables while a second caller drops them and the
\* directory changes; the coroutine of a call that can go on is scheduled.
NextWaitFair ==
    \/ \E tables \in SUBSET TableNames : TableWaitCall("c1", tables, Writes)
    \/ TableWaitRun("c1")
    \/ TableWaitWake("c1")
    \/ TableWaitRead("c1")
    \/ TableDropNext("c2")
    \/ Barrier("c2")
    \/ \E t \in Threads : PropagateNs("n1", t)
    \/ \E id \in TableIds, level \in {Unready, Writes} : DirectoryChange(id, level)
    \/ \E id \in TableIds : DirectoryRetract(id)

SpecWaitFair ==
    /\ InitWait
    /\ [][NextWaitFair]_vars
    /\ WF_vars(TableWaitRun("c1"))
    /\ WF_vars(TableWaitWake("c1"))
    /\ WF_vars(TableWaitRead("c1"))

\* Two callers on different threads of one node drop tables and databases;
\* each waits at the barrier for the mirrors of its own thread.
InitBarrier == InitWith(TwoTables, {"c1", "c2"}, {1}, NoHist)

NextBarrier ==
    \/ \E c \in {"c1", "c2"} : TableDropNext(c)
    \/ \E c \in {"c1", "c2"} : DbDropOnly(c)
    \/ \E c \in {"c1", "c2"} : Barrier(c)
    \/ \E t \in Threads : PropagateNs("n1", t)
    \/ \E t \in Threads : PropagateDb("n1", t)

SpecBarrier == InitBarrier /\ [][NextBarrier]_vars

\* A cluster that holds the database "a" and in it the table "t".
OneDatabase ==
    [databases |-> (1 :> [name |-> "a", deleted |-> FALSE]),
     rdb_namespaces |-> OneTable.rdb_namespaces]

\* One caller creates and drops databases and tables and may be cancelled
\* at every barrier, after the join.
InitCancelJoin == InitWith(OneDatabase, {"c1"}, {1}, NoHist)

NextCancelJoin ==
    \/ DbCreateCall("c1", "b")
    \/ DbCreateHome("c1")
    \/ DbDropCall("c1", "a")
    \/ DbDropHome("c1")
    \/ TableCreateCall("c1", "u", "id")
    \/ TableCreateHome("c1")
    \/ \E config \in Servers \cup {NoConfig} : TableCreateGenerate("c1", config)
    \/ TableCreateWaitNs("c1")
    \/ TableCreateWaitDb("c1")
    \/ TableWaitRun("c1")
    \/ TableWaitWake("c1")
    \/ TableDropCall("c1", "t")
    \/ TableDropHome("c1")
    \/ Barrier("c1")
    \/ \E t \in Threads : PropagateNs("n1", t)
    \/ \E t \in Threads : PropagateDb("n1", t)
    \/ \E id \in TableIds : DirectoryChange(id, Writes)
    \/ Interrupt("c1")

SpecCancelJoin == InitCancelJoin /\ [][NextCancelJoin]_vars

\* The tables a node can hold when configurations name either server and
\* names are unique.
ConfiguredTables ==
    {nss \in UNION {[ids -> [name : TableNames, database : {1}, primary_key : {"id"},
                             replication_info : [stamp : {0}, config : MoreServers],
                             deleted : BOOLEAN]] : ids \in SUBSET TableIds} :
        UniqueNames(nss)}

\* table_create and table_reconfigure on every such snapshot, up to the
\* return of the configuration generator.
InitUsage ==
    \E nss \in ConfiguredTables :
        InitWith([TwoDatabases EXCEPT !.rdb_namespaces = nss], {"c1"}, {1}, NoHist)

NextUsage ==
    \/ \E name \in TableNames : TableCreateCall("c1", name, "id")
    \/ TableCreateHome("c1")
    \/ TableCreateGenerate("c1", NoConfig)
    \/ \E name \in TableNames : TableReconfigureCall("c1", name, TRUE)
    \/ TableReconfigureHome("c1")
    \/ \E ok \in BOOLEAN : TableReconfigureSplit("c1", ok)
    \/ \E config \in MoreServers \cup {NoConfig} : TableReconfigureGenerate("c1", config)

SpecUsage == InitUsage /\ [][NextUsage]_vars

\* One caller drops the database "a" with its table, creates "a" again,
\* finds it, creates a table in it and lists and resolves tables.
InitRecreate == InitWith(OneDatabase, {"c1"}, {1}, NoHist)

NextRecreate ==
    \/ DbDropCall("c1", "a")
    \/ DbDropHome("c1")
    \/ DbCreateCall("c1", "a")
    \/ DbCreateHome("c1")
    \/ DbFind("c1", "a")
    \/ \E name \in TableNames : TableCreateCall("c1", name, "id")
    \/ TableCreateHome("c1")
    \/ \E config \in Servers \cup {NoConfig} : TableCreateGenerate("c1", config)
    \/ TableCreateWaitNs("c1")
    \/ TableCreateWaitDb("c1")
    \/ TableWaitRun("c1")
    \/ TableWaitWake("c1")
    \/ Barrier("c1")
    \/ TableList("c1")
    \/ \E table_names \in SUBSET TableNames : GetTableIds("c1", table_names)
    \/ \E t \in Threads : PropagateNs("n1", t)
    \/ \E t \in Threads : PropagateDb("n1", t)
    \/ \E id \in TableIds : DirectoryChange(id, Writes)

SpecRecreate == InitRecreate /\ [][NextRecreate]_vars

\* The metadata values of the bounded size: every database present, live
\* or deleted; every table absent or present, live or deleted, in its
\* first configuration or reconfigured once.  An id stands for one name.
SomeMetadata ==
    [databases : [DbIds -> [name : {"a"}, deleted : BOOLEAN]],
     rdb_namespaces :
        UNION {[ids -> [name : {"t"}, database : {1}, primary_key : {"id"},
                        replication_info : {[stamp |-> 0, config |-> "s1"],
                                            [stamp |-> 1, config |-> "s2"]},
                        deleted : BOOLEAN]] : ids \in SUBSET TableIds}]

\* The snapshots a caller joins: the join works id by id, so a snapshot
\* carries one table at most, next to every database.
SomeSnapshots == {m \in SomeMetadata : Cardinality(DOMAIN m.rdb_namespaces) <= 1}

\* The join of every snapshot into every store, twice.
InitJoin == \E m \in SomeMetadata : InitWith(m, {}, {NoId}, NoHist)

NextJoin ==
    \/ \E snapshot \in SomeSnapshots : JoinSnapshot("c1", snapshot)
    \/ JoinAgain("c1")

SpecJoin == InitJoin /\ [][NextJoin]_vars

\* A caller on a worker thread reads while a caller on the home thread
\* creates a database and drops and creates tables; the mirrors of both
\* threads follow the store one by one.
InitRead == InitWith(OneDatabase, {"c1", "c2"}, {1}, NoHist)

NextRead ==
    \/ DbList("c1")
    \/ \E name \in DbNames : DbFind("c1", name)
    \/ TableList("c1")
    \/ TableFindNext("c1")
    \/ \E table_names \in SUBSET TableNames : GetTableIds("c1", table_names)
    \/ DbCreateCall("c2", "b")
    \/ DbCreateHome("c2")
    \/ TableDropCall("c2", "t")
    \/ TableDropHome("c2")
    \/ Barrier("c2")
    \/ \E t \in Threads : PropagateNs("n1", t)
    \/ \E t \in Threads : PropagateDb("n1", t)

SpecRead == InitRead /\ [][NextRead]_vars

\* ------------------------------------------------------------ properties
LiveDbs(dbs) == {id \in DOMAIN dbs : ~dbs[id].deleted}

\* C1: in the metadata store of every node, no two databases that are not
\* deleted have the same name, however db_create and db_drop calls of the
\* callers and the nodes interleave.
DbNamesUnique ==
    \A n \in Nodes : \A i, j \in LiveDbs(store[n].databases) :
        store[n].databases[i].name = store[n].databases[j].name => i = j

\* C4: what db_list returns to the only caller is exactly the set of names
\* it has created and not dropped since.
DbListExact ==
    (call["c1"].op = "db_list" /\ call["c1"].pc = "done")
        => call["c1"].out = hist.dbs

\* db_list has answered {"b"} after "a" was created and dropped.
DbListExactWitness ==
    /\ call["c1"].op = "db_list" /\ call["c1"].pc = "done"
    /\ call["c1"].out = {"b"}
    /\ \E id \in DOMAIN store["n1"].databases :
            /\ store["n1"].databases[id].deleted
            /\ store["n1"].databases[id].name = "a"

\* C2: in the metadata store of every node, no two tables that are not
\* deleted have the same database and the same name, also when table_create
\* calls for one (database, name) interleave.
TableNamesUnique ==
    \A n \in Nodes : \A i, j \in find_ns_all(store[n].rdb_namespaces) :
        (/\ store[n].rdb_namespaces[i].name = store[n].rdb_namespaces[j].name
         /\ store[n].rdb_namespaces[i].database = store[n].rdb_namespaces[j].database)
            => i = j

Mutating == {"db_create", "db_drop", "table_create", "table_drop", "table_reconfigure"}

\* The step of caller c is the successful return of a mutating operation.
ReturnsMutation(c) ==
    /\ call[c].pc # "done" /\ call'[c].pc = "done"
    /\ call'[c].result = "ok"
    /\ call[c].op \in Mutating /\ ~call[c].dry_run

\* The store snapshot that resulted from the join of the operation that
\* returns in this step.
Joined(c) ==
    IF call[c].op = "table_reconfigure" THEN store'[NodeOf(c)] ELSE call[c].metadata

\* C3: when a mutating operation returns success, the mirrors of the
\* caller's thread subsume the store snapshot that resulted from its join.
MutationVisibleAtReturn ==
    [][\A c \in Callers : ReturnsMutation(c) =>
            /\ is_joined_ns(nsCache'[NodeOf(c)][ThreadOf(c)], Joined(c).rdb_namespaces)
            /\ is_joined_db(dbCache'[NodeOf(c)][ThreadOf(c)], Joined(c).databases)]_vars

\* The databases of caller c's node that are not deleted and carry the name
\* of c's call.
Named(c) ==
    {id \in LiveDbs(store[NodeOf(c)].databases) :
        store[NodeOf(c)].databases[id].name = call[c].name}

\* C5: db_create of a name that a database of the snapshot carries (one
\* that is not deleted) fails with already-exists, db_drop of a name that
\* none carries fails with does-not-exist, and a call that fails so has
\* joined nothing: the store is as before.
DbCallsFailCleanly ==
    [][\A c \in Callers :
        /\ (call[c].pc = "dbc_home" /\ call'[c] # call[c] /\ Named(c) # {})
            => /\ call'[c].pc = "done" /\ call'[c].result = "already_exists"
               /\ store' = store
        /\ (call[c].pc = "dbd_home" /\ call'[c] # call[c] /\ Named(c) = {})
            => /\ call'[c].pc = "done" /\ call'[c].result = "does_not_exist"
               /\ store' = store
        /\ (/\ call[c].pc # "done" /\ call'[c].pc = "done"
            /\ call'[c].result \in {"already_exists", "does_not_exist"})
            => store' = store]_vars

\* C6: the join of a successful db_drop marks the database deleted and with
\* it every table of that database, leaves every other database and every
\* table of another database as it was, and no table of the dropped
\* database resolves after it; when db_drop returns, none resolves in the
\* caller's mirror either.
DbDropCascades ==
    [][\A c \in Callers :
        LET old == store[NodeOf(c)]
            new == store'[NodeOf(c)]
            id == call'[c].it
        IN  /\ (call[c].pc = "dbd_home" /\ call'[c].pc = "prop_ns")
                => /\ id \in LiveDbs(old.databases)
                   /\ old.databases[id].name = call[c].name
                   /\ new.databases[id].deleted
                   /\ DOMAIN new.databases = DOMAIN old.databases
                   /\ DOMAIN new.rdb_namespaces = DOMAIN old.rdb_namespaces
                   /\ \A d \in DOMAIN old.databases \ {id} :
                            new.databases[d] = old.databases[d]
                   /\ \A t \in DOMAIN old.rdb_namespaces :
                            IF old.rdb_namespaces[t].database = id
                            THEN new.rdb_namespaces[t] =
                                    [old.rdb_namespaces[t] EXCEPT !.deleted = TRUE]
                            ELSE new.rdb_namespaces[t] = old.rdb_namespaces[t]
                   /\ \A name \in TableNames :
                            get_table_ids_for_query(new.rdb_namespaces, id, {name}).status
                                = "does_not_exist"
            /\ (call[c].op = "db_drop" /\ call[c].pc = "prop_db" /\ call'[c].pc = "done"
                    /\ call'[c].result = "ok")
                => \A t \in DOMAIN call[c].metadata.rdb_namespaces :
                        call[c].metadata.rdb_namespaces[t].database = call[c].it
                            => /\ store'[NodeOf(c)].rdb_namespaces[t].deleted
                               /\ nsCache'[NodeOf(c)][ThreadOf(c)][t].deleted]_vars

\* db_drop has returned after dropping a database with a table, and a table
\* of the other database is still there.
DbDropCascadesWitness ==
    /\ \E c \in Callers :
            call[c].pc = "done" /\ call[c].op = "db_drop" /\ call[c].result = "ok"
    /\ \E t, u \in DOMAIN store["n1"].rdb_namespaces :
            /\ store["n1"].rdb_namespaces[t].deleted
            /\ store["n1"].databases[store["n1"].rdb_namespaces[t].database].deleted
            /\ ~store["n1"].rdb_namespaces[u].deleted
            /\ ~store["n1"].databases[store["n1"].rdb_namespaces[u].database].deleted

\* The step of caller c is the successful return of table_create.
ReturnsCreate(c) ==
    /\ call[c].op = "table_create" /\ call[c].pc = "prop_db"
    /\ call'[c].pc = "done" /\ call'[c].result = "ok"

\* C7: when table_create returns success, the table it created has been at
\* readiness Writes or better at some point before.
CreatedTableWasReady ==
    [][\A c \in Callers :
        ReturnsCreate(c) => call[c].namespace_id \in hist.reached]_vars

\* C7, amended: when table_create returns success, the table it created has
\* been at readiness Writes or better at some point before, or it is marked
\* deleted.
CreatedTableWasReadyOrDeleted ==
    [][\A c \in Callers :
        ReturnsCreate(c) =>
            \/ call[c].namespace_id \in hist.reached
            \/ store[NodeOf(c)].rdb_namespaces[call[c].namespace_id].deleted]_vars

\* table_create has returned success though no table has ever been ready
\* for writes: its table was dropped while it waited.
CreatedTableWasReadyOrDeletedWitness ==
    /\ call["c1"].pc = "done" /\ call["c1"].op = "table_create"
    /\ call["c1"].result = "ok"
    /\ hist.reached = {}
    /\ \E t \in DOMAIN store["n1"].rdb_namespaces : store["n1"].rdb_namespaces[t].deleted

\* C8: when table_wait leaves its loop, every table it resolved passes the
\* check in the state of that very step (it is at the awaited readiness or
\* better, or absent): the tables checked before a suspension have been
\* checked again after it.
WaitLoopExitsOnFullPass ==
    [][\A c \in Callers :
        (call[c].pc = "tw_loop" /\ call'[c].pc \in {"tw_read", "prop_ns"})
            => \A j \in 1..Len(call[c].ids) :
                    \/ get_table_readiness(NodeOf(c), call[c].ids[j]) = NoReadiness
                    \/ get_table_readiness(NodeOf(c), call[c].ids[j]) >= call[c].readiness]_vars

\* table_wait over two tables has left its loop after a wait_ready suspended.
WaitLoopExitsOnFullPassWitness ==
    /\ call["c1"].op = "table_wait" /\ call["c1"].pc = "tw_read"
    /\ Len(call["c1"].ids) = 2
    /\ ~call["c1"].immediate

\* The tables of caller c's node that are not deleted and have the name of
\* c's call in the database of c's handle.
SameTable(c) ==
    {id \in DOMAIN store[NodeOf(c)].rdb_namespaces :
        /\ ~store[NodeOf(c)].rdb_namespaces[id].deleted
        /\ store[NodeOf(c)].rdb_namespaces[id].name = call[c].name
        /\ store[NodeOf(c)].rdb_namespaces[id].database = call[c].db}

\* C9: table_create fails with already-exists exactly when its snapshot
\* holds a table that is not deleted and has the same name and the same
\* database; otherwise it goes on to generate the configuration.
TableCreateChecksNameAndDb ==
    [][\A c \in Callers :
        /\ (call[c].pc = "tc_home" /\ call'[c] # call[c])
            => IF SameTable(c) # {}
               THEN call'[c].pc = "done" /\ call'[c].result = "already_exists"
               ELSE call'[c].pc = "tc_gen" /\ call'[c].metadata = store[NodeOf(c)]
        /\ (/\ call[c].op = "table_create" /\ call[c].pc # "done"
            /\ call'[c].pc = "done" /\ call'[c].result = "already_exists")
            => call[c].pc = "tc_home"]_vars

\* table_create has passed its check though the snapshot holds a deleted
\* table of the same name in the same database and a table of the same name
\* in the other database.
PassedCheckBesideOtherTables ==
    \E c \in Callers :
        /\ call[c].op = "table_create" /\ call[c].pc = "tc_gen"
        /\ \E t, u \in DOMAIN call[c].metadata.rdb_namespaces :
            /\ call[c].metadata.rdb_namespaces[t].name = call[c].name
            /\ call[c].metadata.rdb_namespaces[t].database = call[c].db
            /\ call[c].metadata.rdb_namespaces[t].deleted
            /\ call[c].metadata.rdb_namespaces[u].name = call[c].name
            /\ call[c].metadata.rdb_namespaces[u].database # call[c].db
            /\ ~call[c].metadata.rdb_namespaces[u].deleted

\* The tables of the store that are not deleted, as (database, name).
LiveTables(nss) == {<<nss[id].database, nss[id].name>> : id \in find_ns_all(nss)}

\* C10: what table_list returns to the only caller is exactly the names of
\* the tables it has created in the database of its handle and not dropped
\* since, and between its calls the tables of the store that are not
\* deleted are exactly the tables it has created and not dropped.
TableListExact ==
    /\ (call["c1"].op = "table_list" /\ call["c1"].pc = "done")
        => call["c1"].out = {name \in TableNames : <<call["c1"].db, name>> \in hist.tables}
    /\ Idle("c1") => LiveTables(store["n1"].rdb_namespaces) = hist.tables

\* table_list has answered nothing for a database whose only table was
\* dropped, while the other database has a table.
TableListExactWitness ==
    /\ call["c1"].op = "table_list" /\ call["c1"].pc = "done"
    /\ call["c1"].out = {}
    /\ \E t, u \in DOMAIN store["n1"].rdb_namespaces :
        /\ store["n1"].rdb_namespaces[t].database = call["c1"].db
        /\ store["n1"].rdb_namespaces[t].deleted
        /\ store["n1"].rdb_namespaces[u].database # call["c1"].db
        /\ ~store["n1"].rdb_namespaces[u].deleted

\* The tables the observed caller has created under the name of its call in
\* the database of its handle and not dropped since.
MadeHere(c) == {m \in hist.made : m.db = call[c].db /\ m.name = call[c].name}

\* C11: table_find of a table the caller has created (its table_create has
\* returned success) and that was not dropped since succeeds, and the handle
\* has the id the create inserted and the primary key the create was given.
FindAfterCreate ==
    [][(call["c1"].pc = "tf_find" /\ call'["c1"] # call["c1"] /\ MadeHere("c1") # {})
        => /\ call'["c1"].pc = "tf_repo"
           /\ \E m \in MadeHere("c1") :
                /\ call'["c1"].it = m.id
                /\ call'["c1"].primary_key = m.primary_key]_vars

\* table_find has found a table the caller created with the primary key "k".
FoundAfterCreate ==
    /\ call["c1"].op = "table_find" /\ call["c1"].pc = "done" /\ call["c1"].result = "ok"
    /\ \E m \in hist.made : call["c1"].out = {<<m.id, "k">>}

\* C12: no step of a table_reconfigure with dry_run changes the store or a
\* mirror of any thread, its return carries the configuration the generator
\* computed, and table_config afterwards still shows the configuration
\* every table had before.
DryRunChangesNothing ==
    /\ [][\A c \in Callers :
            (/\ call[c].op = "table_reconfigure" /\ call[c].dry_run
             /\ call'[c] # call[c])
                => /\ store' = store /\ nsCache' = nsCache /\ dbCache' = dbCache
                   /\ (call'[c].pc = "done" /\ call'[c].result = "ok")
                        => \E config \in MoreServers : call'[c].out = {config}]_vars
    /\ [](\A c \in Callers :
            (call[c].op = "table_config" /\ call[c].pc = "done" /\ call[c].result = "ok")
                => \A row \in call[c].out :
                        row[2] = TwoTables.rdb_namespaces[row[1]].replication_info.config)

\* A dry run has returned the configuration "s2" for a table that is
\* configured "s1".
DryRunReturnedNewConfig ==
    /\ call["c1"].op = "table_reconfigure" /\ call["c1"].pc = "done"
    /\ call["c1"].result = "ok" /\ call["c1"].out = {"s2"}
    /\ \A id \in DOMAIN store["n1"].rdb_namespaces :
            store["n1"].rdb_namespaces[id].replication_info.config = "s1"

\* The rows the read of call c fetches now: table_wait reads the status
\* backend.
RowsFetched(c) ==
    table_meta_read(NodeOf(c),
                    IF call[c].op = "table_wait" THEN "table_status" ELSE call[c].op,
                    call[c].ids)

\* The read of call c is taken and leaves rows out.
ReadsTooFew(c) ==
    /\ call[c].pc \in {"tm_read", "tw_read"}
    /\ call'[c].pc = "done" /\ call'[c].result # "cancelled"
    /\ Cardinality(RowsFetched(c)) < Len(call[c].ids)

\* C13: table_config, table_status and table_wait fail with
\* table-does-not-exist whenever fewer rows are fetched than ids were
\* resolved, for every requested name set, the empty one included.
FewerRowsAlwaysFail ==
    [][\A c \in Callers : ReadsTooFew(c) => call'[c].result = "does_not_exist"]_vars

\* C13, amended: with a name set that is not empty the three operations fail
\* with table-does-not-exist whenever fewer rows are fetched than ids were
\* resolved; with the empty name set they succeed with the rows fetched.
FewerRowsFailForNames ==
    [][\A c \in Callers : ReadsTooFew(c) =>
            IF call[c].tables # {}
            THEN call'[c].result = "does_not_exist"
            ELSE /\ call'[c].result = "ok"
                 /\ call[c].op # "table_wait" => call'[c].out = RowsFetched(c)]_vars

\* table_config of all tables has returned success without a row while the
\* caller's mirror still shows tables in the database.
FewerRowsWitness ==
    /\ call["c1"].op = "table_config" /\ call["c1"].pc = "done"
    /\ call["c1"].result = "ok" /\ call["c1"].out = {}
    /\ find_ns_by_db(get_namespaces_metadata("c1"), call["c1"].db) # {}

\* The tables named name in the database of c's handle that c's mirror
\* holds and that are not deleted.
LiveNamed(c, name) ==
    LET nss == get_namespaces_metadata(c)
    IN  {id \in DOMAIN nss : /\ ~nss[id].deleted /\ nss[id].database = call[c].db
                             /\ nss[id].name = name}

\* The names of S that do not resolve in c's mirror.
Unresolved(c, S) == {name \in S : LiveNamed(c, name) = {}}

\* C14: with the empty name set get_table_ids_for_query returns exactly the
\* (id, name) pairs of the tables of the database that are not deleted in the
\* caller's mirror; with names it returns one pair per name when every name
\* resolves and else fails with not-found naming the first name, in the
\* iteration order of the set, that does not resolve; a repeated call on the
\* same mirror gives the same.
IdsForQuery ==
    \A c \in Callers :
        call[c].op = "get_table_ids_for_query" =>
            LET names == call[c].tables
                all == UNION {LiveNamed(c, name) : name \in TableNames}
            IN  IF names = {}
                THEN /\ call[c].result = "ok"
                     /\ call[c].out = {<<id, get_namespaces_metadata(c)[id].name>> : id \in all}
                ELSE IF Unresolved(c, names) = {}
                THEN /\ call[c].result = "ok"
                     /\ Cardinality(call[c].out) = Cardinality(names)
                     /\ \A name \in names :
                            \E id \in LiveNamed(c, name) : <<id, name>> \in call[c].out
                ELSE /\ call[c].result = "does_not_exist"
                     /\ call[c].name \in Unresolved(c, names)
                     /\ \A j \in 1..Len(NameOrder) :
                            NameOrder[j] = call[c].name =>
                                \A k \in 1..(j - 1) :
                                    NameOrder[k] \notin Unresolved(c, names)

\* Call c is suspended in a wait that is not satisfied: a propagation
\* barrier whose mirror does not subsume the target, or a wait_ready that
\* no directory change has woken.
Blocked(c) ==
    LET n == NodeOf(c)
    IN  \/ /\ call[c].pc = "prop_ns"
           /\ ~is_joined_ns(nsCache[n][ThreadOf(c)], call[c].metadata.rdb_namespaces)
        \/ /\ call[c].pc = "prop_db"
           /\ ~is_joined_db(dbCache[n][ThreadOf(c)], call[c].metadata.databases)
        \/ /\ call[c].pc = "tc_prop_ns"
           /\ ~is_joined_ns(nsCache[n][HomeThread], call[c].metadata.rdb_namespaces)
        \/ /\ call[c].pc = "tc_prop_db"
           /\ ~is_joined_db(dbCache[n][HomeThread], call[c].metadata.databases)
        \/ call[c].pc = "tw_loop" /\ call[c].w > 0 /\ ~call[c].notified

\* C15: a call that is cancelled while it is suspended at a propagation
\* barrier or in a readiness wait ends with the outcome Cancelled, without
\* results: a blocked call goes on in no other way, table_create in its
\* inner table_wait included, and a cancelled call has returned nothing.
CancelledWhileSuspended ==
    /\ [][\A c \in Callers :
            (/\ Blocked(c) /\ call'[c] # call[c]
             /\ call'[c] # [call[c] EXCEPT !.notified = TRUE])
                => /\ call'[c].pc = "done" /\ call'[c].result = "cancelled"
                   /\ call'[c].op = call[c].op]_vars
    /\ [](\A c \in Callers :
            call[c].result = "cancelled" => call[c].pc = "done" /\ call[c].out = {})

\* table_create has been cancelled in its inner table_wait: the table is in
\* the store and not ready.
CancelledInCreate ==
    /\ call["c1"].op = "table_create" /\ call["c1"].result = "cancelled"
    /\ call["c1"].waited = ""
    /\ \E id \in find_ns_all(store["n1"].rdb_namespaces) : readiness[id] = Unready

\* Every entry of map a is in map b, and deleted in b if deleted in a.
Keeps(a, b) ==
    \A id \in DOMAIN a : id \in DOMAIN b /\ (a[id].deleted => b[id].deleted)

\* C16: tombstones are permanent: in the store and in every mirror the sets
\* of database ids and of table ids only grow, and an entry that is deleted
\* stays deleted after every later step, the join of a snapshot that was
\* read before the deletion included.
TombstonesStay ==
    [][\A n \in Nodes :
            /\ Keeps(store[n].databases, store'[n].databases)
            /\ Keeps(store[n].rdb_namespaces, store'[n].rdb_namespaces)
            /\ \A t \in Threads :
                    /\ Keeps(dbCache[n][t], dbCache'[n][t])
                    /\ Keeps(nsCache[n][t], nsCache'[n][t])]_vars

\* table_reconfigure has joined a snapshot in which the table was not yet
\* deleted, and the table is deleted.
TombstoneOutlivedStaleJoin ==
    /\ hist.stale
    /\ call["c1"].op = "table_reconfigure" /\ call["c1"].result = "ok"
    /\ \E id \in DOMAIN store["n1"].rdb_namespaces :
            /\ store["n1"].rdb_namespaces[id].deleted
            /\ store["n1"].rdb_namespaces[id].replication_info.stamp > 0

\* C17: in the store of every node, the database of every table that is not
\* deleted is a database that is not deleted.
TablesInLiveDatabases ==
    \A n \in Nodes : \A id \in DOMAIN store[n].rdb_namespaces :
        ~store[n].rdb_namespaces[id].deleted =>
            /\ store[n].rdb_namespaces[id].database \in DOMAIN store[n].databases
            /\ ~store[n].databases[store[n].rdb_namespaces[id].database].deleted

\* Every table that c1's table_wait resolved is at the target readiness or
\* absent.
Settled ==
    call["c1"].pc = "tw_loop" =>
        \A j \in 1..Len(call["c1"].ids) :
            do_check("n1", call["c1"].ids[j], call["c1"].readiness)

\* C18: without cancellation, if every table that table_wait resolved
\* eventually is and remains at the target readiness or absent, the loop of
\* table_wait eventually terminates.
WaitLoopTerminates ==
    <>[]Settled => []<>(call["c1"].pc # "tw_loop")

\* C19: at the step in which wait_for_metadata_to_propagate returns, the
\* namespaces mirror of the calling thread subsumes the tables of the
\* target and the databases mirror subsumes its databases, both at that
\* moment, although the two waits ran one after the other.
BarrierHoldsBothAtReturn ==
    [][\A c \in Callers :
            (call[c].pc = "prop_db" /\ call'[c].pc = "done" /\ call'[c].result = "ok")
                => /\ is_joined_ns(nsCache'[NodeOf(c)][ThreadOf(c)],
                                   call[c].metadata.rdb_namespaces)
                   /\ is_joined_db(dbCache'[NodeOf(c)][ThreadOf(c)],
                                   call[c].metadata.databases)]_vars

\* db_drop of the worker thread's caller has returned: both mirrors of its
\* thread show the deletions, the mirrors of the home thread show none yet.
BarrierReturnedWitness ==
    /\ call["c1"].op = "db_drop" /\ call["c1"].pc = "done" /\ call["c1"].result = "ok"
    /\ \E id \in DOMAIN nsCache["n1"]["worker"] : nsCache["n1"]["worker"][id].deleted
    /\ \E id \in DOMAIN dbCache["n1"]["worker"] : dbCache["n1"]["worker"][id].deleted
    /\ nsCache["n1"]["home"] = TwoTables.rdb_namespaces
    /\ dbCache["n1"]["home"] = TwoTables.databases

\* Call c takes a step of its table_wait loop in which waiters check.
Checks(c) ==
    /\ call[c].pc = "tw_loop" /\ call'[c] # call[c]
    /\ call'[c] # [call[c] EXCEPT !.notified = TRUE]
    /\ call'[c].result # "cancelled"

\* The status backend has no readiness for table id on c's node.
Absent(c, id) == get_table_readiness(NodeOf(c), id) = NoReadiness

\* C20: a check that finds the table absent records the waiter as deleted
\* and is satisfied for every target: after checks no wait_ready is
\* suspended on an absent table, a woken waiter whose table is absent is
\* recorded deleted, and when every resolved table is absent the loop is
\* left with all of them recorded.
DeletedCountsAsReady ==
    [][\A c \in Callers : Checks(c) =>
            /\ (call'[c].pc = "tw_loop") =>
                    /\ call'[c].w > 0
                    /\ ~Absent(c, call'[c].ids[call'[c].w])
            /\ (call[c].w > 0 /\ Absent(c, call[c].ids[call[c].w])) =>
                    call[c].ids[call[c].w] \in call'[c].deleted
            /\ (\A j \in 1..Len(call[c].ids) : Absent(c, call[c].ids[j])) =>
                    /\ call'[c].pc # "tw_loop"
                    /\ call[c].w = 0 =>
                            call'[c].deleted = {call[c].ids[j] : j \in 1..Len(call[c].ids)}]_vars

\* table_wait for readiness reads has left its loop with a waiter recorded
\* deleted.
DeletedCountsAsReadyWitness ==
    /\ call["c1"].op = "table_wait" /\ call["c1"].pc = "tw_read"
    /\ call["c1"].readiness = Reads /\ call["c1"].deleted # {}
    /\ Len(call["c1"].ids) = 2

\* Call c is at a propagation barrier of one of the four mutating
\* operations that wait.
AtBarrier(c) ==
    /\ call[c].pc \in {"prop_ns", "prop_db", "tc_prop_ns", "tc_prop_db"}
    /\ call[c].op \in {"db_create", "db_drop", "table_create", "table_drop"}

\* The mutation of call c is in metadata m: the entity it creates is there,
\* the entity it drops is deleted.
Applied(c, m) ==
    CASE call[c].op = "db_create" ->
            \E id \in DOMAIN m.databases : m.databases[id].name = call[c].name
      [] call[c].op = "db_drop" ->
            call[c].it \in DOMAIN m.databases /\ m.databases[call[c].it].deleted
      [] call[c].op = "table_create" ->
            /\ call[c].namespace_id \in DOMAIN m.rdb_namespaces
            /\ m.rdb_namespaces[call[c].namespace_id].name = call[c].name
            /\ m.rdb_namespaces[call[c].namespace_id].database = call[c].db
      [] call[c].op = "table_drop" ->
            call[c].it \in DOMAIN m.rdb_namespaces /\ m.rdb_namespaces[call[c].it].deleted
      [] OTHER -> FALSE

\* C21: a db_create, db_drop, table_create or table_drop that is cancelled
\* at its propagation barrier ends as cancelled and leaves the store as it
\* is: the store holds the joined snapshot and the created or deleted
\* entity, nothing is rolled back.
CancelKeepsJoin ==
    [][\A c \in Callers :
            (AtBarrier(c) /\ call'[c].result = "cancelled")
                => /\ call'[c].pc = "done" /\ call'[c].op = call[c].op
                   /\ store' = store
                   /\ is_joined_db(store'[NodeOf(c)].databases, call[c].metadata.databases)
                   /\ is_joined_ns(store'[NodeOf(c)].rdb_namespaces,
                                   call[c].metadata.rdb_namespaces)
                   /\ Applied(c, store'[NodeOf(c)])]_vars

\* db_create("b") has ended as cancelled, and the store holds the database
\* "b", which the caller's thread does not see yet.
CancelKeepsJoinWitness ==
    /\ call["c1"].op = "db_create" /\ call["c1"].pc = "done"
    /\ call["c1"].result = "cancelled"
    /\ find_db_by_name(store["n1"].databases, "b") # {}
    /\ find_db_by_name(dbCache["n1"]["worker"], "b") = {}

\* How many of the tables `ids` of nss that are not deleted have a replica
\* on server s.
Slots(nss, ids, s) ==
    Cardinality({id \in ids \cap DOMAIN nss :
                    ~nss[id].deleted /\ nss[id].replication_info.config = s})

\* C22: the usage handed to the configuration generator counts, for every
\* server, the replicas of exactly the tables of the call's snapshot that are
\* not deleted: all of them in table_create, all but the target in
\* table_reconfigure.
UsageCountsLiveTables ==
    \A c \in Callers :
        LET nss == call[c].metadata.rdb_namespaces
        IN  /\ call[c].pc = "tc_gen" =>
                \A s \in MoreServers :
                    call[c].server_usage[s] = Slots(nss, DOMAIN nss, s)
            /\ call[c].pc \in {"tr_split", "tr_gen"} =>
                \A s \in MoreServers :
                    call[c].server_usage[s] = Slots(nss, DOMAIN nss \ {call[c].it}, s)

\* table_create is at the generator with a snapshot that holds a deleted
\* table on "s2" and a table on "s1": the usage is one replica on "s1".
UsageWitness ==
    /\ call["c1"].pc = "tc_gen"
    /\ \E i, j \in DOMAIN call["c1"].metadata.rdb_namespaces :
            /\ call["c1"].metadata.rdb_namespaces[i].deleted
            /\ call["c1"].metadata.rdb_namespaces[i].replication_info.config = "s2"
            /\ ~call["c1"].metadata.rdb_namespaces[j].deleted
            /\ call["c1"].metadata.rdb_namespaces[j].replication_info.config = "s1"
    /\ call["c1"].server_usage = [s \in MoreServers |-> IF s = "s1" THEN 1 ELSE 0]

\* C23: when the configuration generator of table_create or
\* table_reconfigure or the split-point computation of table_reconfigure
\* returns an error, the call fails with that error and the step leaves the
\* store and the mirrors as they are; nor has any earlier step of the call
\* changed the store.
GeneratorErrorChangesNothing ==
    [][\A c \in Callers :
            /\ (call[c].pc \in {"tc_gen", "tr_split", "tr_gen"}
                    /\ call'[c].result = "config_error")
                => /\ call'[c].pc = "done" /\ call'[c].op = call[c].op
                   /\ store' = store /\ nsCache' = nsCache /\ dbCache' = dbCache
            /\ (call[c].pc \in {"tc_home", "tr_home", "tr_split"} /\ call'[c] # call[c])
                => store' = store]_vars

\* table_create("u") has failed with the generator's error and the store
\* holds no table "u", while the drop of another caller is in the store.
GeneratorErrorWitness ==
    /\ call["c1"].op = "table_create" /\ call["c1"].pc = "done"
    /\ call["c1"].result = "config_error"
    /\ \A id \in DOMAIN store["n1"].rdb_namespaces :
            store["n1"].rdb_namespaces[id].name # "u"
    /\ \E id \in DOMAIN store["n1"].rdb_namespaces : store["n1"].rdb_namespaces[id].deleted

\* The ids of the databases that are deleted in the store of c's node.
DroppedDbs(c) ==
    {id \in DOMAIN store[NodeOf(c)].databases : store[NodeOf(c)].databases[id].deleted}

\* C24: the entry db_create joins has an id no store has held and no table
\* refers to, also when a database of that name was dropped before; dropped
\* databases and their tables stay deleted; and table_list and
\* get_table_ids_for_query for a database that is not dropped return no
\* table of a dropped database.
RecreatedDatabaseIsNew ==
    /\ [][\A c \in Callers :
            (call[c].pc = "dbc_home" /\ call'[c].pc = "prop_ns")
                => \E id \in DOMAIN store'[NodeOf(c)].databases :
                        /\ id \notin AllDbIds
                        /\ store'[NodeOf(c)].databases[id].name = call[c].name
                        /\ ~store'[NodeOf(c)].databases[id].deleted
                        /\ \A n \in Nodes : \A t \in DOMAIN store'[n].rdb_namespaces :
                                store'[n].rdb_namespaces[t].database # id]_vars
    /\ [][\A n \in Nodes :
            /\ Keeps(store[n].databases, store'[n].databases)
            /\ \A t \in DOMAIN store[n].rdb_namespaces :
                    (store[n].rdb_namespaces[t].database \in DOMAIN store[n].databases
                        /\ store[n].databases[store[n].rdb_namespaces[t].database].deleted
                        /\ store[n].rdb_namespaces[t].deleted)
                    => /\ t \in DOMAIN store'[n].rdb_namespaces
                       /\ store'[n].rdb_namespaces[t].deleted]_vars
    /\ [][\A c \in Callers :
            /\ (call'[c].op = "table_list" /\ call'[c] # call[c]
                    /\ call[c].db \notin DroppedDbs(c))
                => \A name \in call'[c].out :
                        \E t \in DOMAIN store[NodeOf(c)].rdb_namespaces :
                            /\ store[NodeOf(c)].rdb_namespaces[t].name = name
                            /\ store[NodeOf(c)].rdb_namespaces[t].database = call[c].db
            /\ (call'[c].op = "get_table_ids_for_query" /\ call'[c] # call[c]
                    /\ call[c].db \notin DroppedDbs(c))
                => \A pair \in call'[c].out :
                        store[NodeOf(c)].rdb_namespaces[pair[1]].database
                            \notin DroppedDbs(c)]_vars

\* The database "a" was dropped with its table "t" and created again: the
\* caller holds the new database and has listed its tables, "u" alone; "t"
\* is deleted.
RecreatedWitness ==
    /\ call["c1"].op = "table_list" /\ call["c1"].pc = "done"
    /\ call["c1"].out = {"u"}
    /\ DroppedDbs("c1") # {} /\ call["c1"].db \notin DroppedDbs("c1")
    /\ store["n1"].rdb_namespaces[1].deleted

\* Call c leaves a wait_ready in this step: at its first evaluation when no
\* waiter was suspended, after a failed evaluation when one was.
LeavesWaitReady(c) ==
    /\ call[c].pc = "tw_loop" /\ call'[c] # call[c]
    /\ call'[c].result # "cancelled"
    /\ call[c].w = 0 \/ (call[c].notified /\
            do_check(NodeOf(c), call[c].ids[call[c].w], call[c].readiness))

\* C25: wait_ready returns IMMEDIATE exactly when its first evaluation
\* holds and WAITED exactly when an evaluation failed before: a table_wait
\* of one table ends its loop with immediate set exactly when its waiter
\* never suspended, and with more tables the flag is cleared once a waiter
\* that was suspended returns and still set when a waiter first suspends.
WaitReadyReportsWaited ==
    [][\A c \in Callers : LeavesWaitReady(c) =>
            /\ (Len(call[c].ids) = 1 /\ call'[c].pc # "tw_loop")
                    => (call'[c].immediate <=> call[c].w = 0)
            /\ (call[c].w = 0 /\ call'[c].pc = "tw_loop") => call'[c].immediate
            /\ (call[c].w > 0 /\ call'[c].pc = "tw_loop" /\ call'[c].w > call[c].w)
                    => ~call'[c].immediate]_vars

\* table_wait of one table has left its loop after its waiter was
\* suspended: wait_ready returned WAITED.
WaitedWitness ==
    /\ call["c1"].op = "table_wait" /\ call["c1"].pc = "tw_read"
    /\ Len(call["c1"].ids) = 1 /\ ~call["c1"].immediate
    /\ call["c1"].deleted = {}

\* C26: after a snapshot was joined into the store, is_joined(store,
\* snapshot) holds and joining the same snapshot again leaves the store as
\* it is.
JoinIsIdempotent ==
    /\ [][\A c \in Callers :
            (call[c].pc = "idle" /\ call'[c].pc = "joined")
                => LET n == NodeOf(c)
                       snapshot == call'[c].metadata
                   IN  /\ is_joined_db(store'[n].databases, snapshot.databases)
                       /\ is_joined_ns(store'[n].rdb_namespaces, snapshot.rdb_namespaces)
                       /\ semilattice_join(store'[n], snapshot) = store'[n]]_vars
    /\ [][\A c \in Callers :
            (call[c].pc = "joined" /\ call'[c].pc = "joined_twice") => store' = store]_vars

\* A snapshot was joined into a store that holds more than the snapshot:
\* a table the snapshot lacks and a deletion the snapshot does not have.
JoinWitness ==
    /\ call["c1"].pc = "joined_twice"
    /\ 1 \in DOMAIN call["c1"].metadata.rdb_namespaces
    /\ 2 \notin DOMAIN call["c1"].metadata.rdb_namespaces
    /\ 2 \in DOMAIN store["n1"].rdb_namespaces
    /\ ~call["c1"].metadata.rdb_namespaces[1].deleted
    /\ store["n1"].rdb_namespaces[1].deleted
    /\ call["c1"].metadata.rdb_namespaces[1].replication_info.stamp = 1
    /\ store["n1"].rdb_namespaces[1].replication_info.stamp = 1
    /\ call["c1"].metadata.databases[1].deleted
    /\ store["n1"].databases[2].deleted /\ ~call["c1"].metadata.databases[2].deleted

\* The operations that only read.
ReadOps == {"db_list", "db_find", "table_list", "table_find", "get_table_ids_for_query"}

\* C27: a step of db_list, db_find, table_list, table_find or
\* get_table_ids_for_query leaves the store and the mirrors of every thread
\* as they are and never brings the call to a propagation barrier; what the
\* step reads or returns is given by the mirrors of the calling thread at
\* that step and the arguments of the call.
ReadsOnlyRead ==
    [][\A c \in Callers :
        (call'[c] # call[c] /\ call'[c].op \in ReadOps) =>
            LET dbs == dbCache[NodeOf(c)][ThreadOf(c)]
                nss == nsCache[NodeOf(c)][ThreadOf(c)]
                new == call'[c]
                live_dbs(name) == {id \in DOMAIN dbs :
                                    ~dbs[id].deleted /\ dbs[id].name = name}
                live_tables(db) == {id \in DOMAIN nss :
                                    ~nss[id].deleted /\ nss[id].database = db}
                named(db, name) == {id \in live_tables(db) : nss[id].name = name}
            IN  /\ store' = store /\ nsCache' = nsCache /\ dbCache' = dbCache
                /\ new.pc \in {"done", "fatal", "tf_find", "tf_repo"}
                /\ new.op = "db_list" =>
                        new.out = {dbs[id].name : id \in {i \in DOMAIN dbs : ~dbs[i].deleted}}
                /\ new.op = "db_find" =>
                        \E name \in DbNames :
                            IF Cardinality(live_dbs(name)) = 1
                            THEN new.result = "ok" /\ live_dbs(name) = {new.db}
                            ELSE new.result # "ok" /\ new.db = call[c].db
                /\ new.op = "table_list" =>
                        new.out = {nss[id].name : id \in live_tables(call[c].db)}
                /\ (new.op = "table_find" /\ call[c].pc = "tf_find") =>
                        IF Cardinality(named(call[c].db, call[c].name)) = 1
                        THEN /\ new.pc = "tf_repo"
                             /\ named(call[c].db, call[c].name) = {new.it}
                             /\ new.primary_key = nss[new.it].primary_key
                        ELSE new.pc \in {"done", "fatal"} /\ new.result # "ok"
                /\ (new.op = "table_find" /\ call[c].pc = "tf_repo") =>
                        new.out = {<<call[c].it, call[c].primary_key>>}
                /\ new.op = "get_table_ids_for_query" =>
                        IF \A name \in new.tables :
                                Cardinality(named(call[c].db, name)) = 1
                        THEN /\ new.result = "ok"
                             /\ new.out =
                                    {<<id, nss[id].name>> :
                                        id \in IF new.tables = {}
                                               THEN live_tables(call[c].db)
                                               ELSE {i \in live_tables(call[c].db) :
                                                        nss[i].name \in new.tables}}
                        ELSE new.result # "ok"]_vars

\* The caller on the worker thread has listed the tables of its database
\* from its thread's mirror, which still shows the table that the store and
\* the mirror of the home thread hold deleted.
ReadsOnlyReadWitness ==
    /\ call["c1"].op = "table_list" /\ call["c1"].pc = "done"
    /\ call["c1"].out = {"t"}
    /\ store["n1"].rdb_namespaces[1].deleted
    /\ nsCache["n1"]["home"][1].deleted
    /\ ~nsCache["n1"]["worker"][1].deleted

====
